---- MODULE Spec2Model ----
(***************************************************************************)
(* Model of the dcontrol / deployctl deployment daemon.                    *)
(*                                                                         *)
(* Two session handlers of the repository are modelled:                    *)
(*   HandleServerConn (src/server.go)  - the TLS / signature variant       *)
(*   AcceptPayload    (src/lib.go)     - the password variant              *)
(* together with the part of the filesystem they change: the artifact at   *)
(* each target's path and the entries of the backup directory.             *)
(***************************************************************************)
EXTENDS Integers, Sequences, FiniteSets, TLC

\* ------------------------------------------------------------------ bounds
MaxConns == 2      \* connections accepted in one run of the daemon
MaxClock == 1      \* seconds the wall clock can advance (backup timestamps)
MaxEntries == 2    \* top-level entries a received archive can unpack to
MaxCmdLen == 2     \* characters of a hook command
MaxCmds == 2       \* commands in a unit's BeforeCmds or AfterCmds
MaxStrLen == 3     \* bytes of a name given to WriteConnStr
FieldWidth == 2    \* bytes of a name field on the wire (64 in the code)
bufferSize == 2    \* bytes ReadConnSec copies at a time (1024 in the code)
MaxLength == 5     \* bytes of a payload requested from ReadConnSec
MaxUnits == 2      \* units in a configuration given to CheckAuth

\* ----------------------------------------------------------- configuration
\* The configuration of the README example, extended to two targets so that
\* both a named principal and the wildcard appear in an Authorized list.
Wildcard == "*"
TargetNames == {"app", "web"}
Authorized(t) ==
    CASE t = "app" -> {"alice"}
      [] t = "web" -> {Wildcard}
      [] OTHER -> {}
\* Hook commands are strings, written as sequences of characters: "x" is
\* a program name. The target web has a Before hook of one space.
Before(t) == IF t = "app" THEN <<"x">> ELSE <<" ">>
After(t) == <<"x">>

\* authorized_keys: signature -> name, one line per key
Signatures == {"sigAlice", "sigBob", "sigEve"}
AuthorizedKeys == [sig \in {"sigAlice", "sigBob"} |->
                      IF sig = "sigAlice" THEN "alice" ELSE "bob"]

\* names a client can put in the DEPLOY command's input
Inputs == TargetNames \cup {"ghost"}
Nil == "nil"

\* Commands of the wire protocol
CommandDEPLOY == "DEPLOY"
CommandPING == "PING"
Commands == {CommandDEPLOY, CommandPING, "OTHER"}

\* Status codes
StatusOK == "OK"
StatusNotOK == "NOT_OK"
StatusUnsupported == "UNSUPPORTED"
StatusBlocked == "BLOCKED"
StatusNotExist == "NOT_EXIST"

\* ------------------------------------------------------------- filesystem
\* What a path holds: nothing, the artifact that was there when the daemon
\* started, or the payload received on the k-th connection.
NoFile == <<>>
OldArtifact == <<0>>
Payload(k) == <<k>>

\* path.Join(dir, target.Name + time.Now().Format(".20060102150405.bak")):
\* a backup entry is named by the target, the second, and the suffix.
BakNames == [t : TargetNames, ts : 0..MaxClock, failed : BOOLEAN]
EmptyPath == [t |-> "", ts |-> 0, failed |-> FALSE]
BakName(t, ts) == [t |-> t, ts |-> ts, failed |-> FALSE]
FailedBakName(t, ts) == [t |-> t, ts |-> ts, failed |-> TRUE]

Slots == {1}

\* The goroutines of two connections that are open at the same time.
Goroutines == {1, 2}

\* The handlers a daemon can run for each connection.
Handlers == {"HandleServerConn", "AcceptPayload"}

VARIABLES
    fs,       \* fs[t]: what is at target t's Filename
    bak,      \* bak[n]: what the backup directory holds under name n
    now,      \* the wall clock, in seconds
    conns,    \* connections accepted so far
    daemon,   \* the handler this daemon runs for each connection
    sess,     \* sess[s]: the session running in slot s
    calc      \* the call of a library function under study: input and result

vars == <<fs, bak, now, conns, daemon, sess, calc>>

\* no library function is under study
NoCalc == [fn |-> "none"]

\* ---------------------------------------------------------------- session
IdleSession ==
    [pc |-> "Idle", handler |-> "none", id |-> 0,
     sig |-> "", cmd |-> "", input |-> "", name |-> "", target |-> Nil,
     tmpfile |-> FALSE, tmpdir |-> FALSE, entries |-> 0,
     backup |-> EmptyPath, msg |-> <<>>,
     sent |-> <<>>, ops |-> <<>>, fault |-> FALSE, bytes |-> FALSE,
     pass |-> "", failed |-> EmptyPath, result |-> "", lookupErr |-> FALSE,
     packErr |-> FALSE,
     pre |-> [fs |-> <<>>, bak |-> <<>>]]

Init ==
    /\ fs \in [TargetNames -> {NoFile, OldArtifact}]
    /\ bak = [n \in BakNames |-> NoFile]
    /\ now = 0
    /\ conns = 0
    /\ daemon \in Handlers
    /\ sess = [s \in Slots |-> IdleSession]
    /\ calc = NoCalc

Set(s, r) == sess' = [sess EXCEPT ![s] = r]

\* goio.Ok / goio.NotOk: one status written to the connection.
Status(code, msg, step) == [code |-> code, msg |-> msg, step |-> step]

\* A return of the handler with a status written: the deferred calls run
\* (f.Close, and os.RemoveAll(tmpdir) when that defer was registered).
Return(r, code, msg) ==
    [r EXCEPT !.pc = "Done",
              !.sent = Append(@, Status(code, msg, r.pc)),
              !.tmpdir = FALSE]

\* A return of the handler with an error and no status written.
ReturnErr(r, why) == [r EXCEPT !.pc = "Done", !.result = why, !.tmpdir = FALSE]

Log(r, op) == [r EXCEPT !.ops = Append(@, op)]

\* A run-time panic in the goroutine of session s. The goroutine has no
\* deferred recover(), so the panic ends the process: the accept loop and
\* every other goroutine stop where they are, and no deferred call of the
\* other sessions runs.
Panic(s, r) ==
    /\ sess' = [t \in DOMAIN sess |->
                  IF t = s THEN [r EXCEPT !.pc = "Panicked"]
                  ELSE IF sess[t].pc \in {"Idle", "Done"} THEN sess[t]
                  ELSE [sess[t] EXCEPT !.pc = "Killed"]]
    /\ daemon' = "crashed"

\* An accept loop that calls the handler itself, without `go`: the next
\* connection is taken only when the handler has returned.
AcceptWith_Inline(s, snapshot) ==
    /\ daemon \in Handlers
    /\ \A o \in DOMAIN sess : sess[o].pc \in {"Idle", "Done"}
    /\ conns < MaxConns
    /\ conns' = conns + 1
    /\ \E sig \in Signatures :
          Set(s, [IdleSession EXCEPT !.pc = IF daemon = "HandleServerConn"
                                           THEN "Handshake" ELSE "ReadHeader",
                                     !.handler = daemon,
                                     !.id = conns + 1,
                                     !.sig = IF daemon = "HandleServerConn"
                                            THEN sig ELSE "",
                                     !.pre = snapshot])
    /\ UNCHANGED <<fs, bak, now, daemon, calc>>

\* ------------------------------------------------------------ the daemon
\* cmdDaemon: listener.Accept() and `go func() { HandleServerConn(ctx) }`.
\* `snapshot` is what the session remembers of the filesystem at its start
\* (history only: the program keeps no such copy).
AcceptWith(s, snapshot) ==
    /\ daemon \in Handlers
    /\ sess[s].pc \in {"Idle", "Done"}
    /\ conns < MaxConns
    /\ conns' = conns + 1
    /\ \E sig \in Signatures :
          Set(s, [IdleSession EXCEPT !.pc = IF daemon = "HandleServerConn"
                                           THEN "Handshake" ELSE "ReadHeader",
                                     !.handler = daemon,
                                     !.id = conns + 1,
                                     !.sig = IF daemon = "HandleServerConn"
                                            THEN sig ELSE "",
                                     !.pre = snapshot])
    /\ UNCHANGED <<fs, bak, now, daemon, calc>>

Accept(s) == AcceptWith(s, [fs |-> fs, bak |-> bak])

\* time.Now() advances between any two steps.
Tick ==
    /\ now < MaxClock
    /\ now' = now + 1
    /\ UNCHANGED <<fs, bak, conns, daemon, sess, calc>>

\* ------------------------------------------- Config (identity, targets)
\* Config.GetSignatureName: the name the authority lists for a signature,
\* the empty string when it lists none.
GetSignatureName(sig) ==
    IF sig \in DOMAIN AuthorizedKeys THEN AuthorizedKeys[sig] ELSE ""

\* Config.GetTargetByName: the configured target of that name, or nil.
GetTargetByName(input) == IF input \in TargetNames THEN input ELSE Nil

\* Target.Allows: the name or the wildcard is in the Authorized list.
Allows(t, name) == name \in Authorized(t) \/ Wildcard \in Authorized(t)

\* --------------------------------------------------- HandleServerConn
\* strings.TrimSpace(command)
RECURSIVE TrimLeft(_)
TrimLeft(str) ==
    IF str # <<>> /\ Head(str) = " " THEN TrimLeft(Tail(str)) ELSE str
RECURSIVE TrimRight(_)
TrimRight(str) ==
    IF str # <<>> /\ str[Len(str)] = " "
    THEN TrimRight(SubSeq(str, 1, Len(str) - 1)) ELSE str
TrimSpace(str) == TrimRight(TrimLeft(str))

\* strings.Split(str, " "): the pieces between the spaces; one piece, the
\* string itself, when it holds no space (so Split("") is [""]).
RECURSIVE Split(_)
Split(str) ==
    IF \A i \in 1..Len(str) : str[i] # " " THEN <<str>>
    ELSE LET i == CHOOSE k \in 1..Len(str) :
                      str[k] = " " /\ \A j \in 1..(k - 1) : str[j] # " "
         IN  <<SubSeq(str, 1, i - 1)>> \o Split(SubSeq(str, i + 1, Len(str)))

\* RunScript: an empty (trimmed) command is a no-op that returns nil;
\* otherwise the result is the exit status of the spawned process
\* (ok = it could be spawned and exited zero).
RunScript(command, ok) == IF TrimSpace(command) = <<>> THEN TRUE ELSE ok

\* The process RunScript starts: exec.Command(xs[0], xs[1:]...) with its
\* output set to the log. cmd.Dir is never assigned and stays "".
RunScriptCmd(command) ==
    LET xs == Split(TrimSpace(command))
    IN  [Path |-> xs[1], Args |-> Tail(xs), Dir |-> <<>>]

\* ctx.C.Handshake() and ConnectionState().PeerCertificates[0]. Whether a
\* handshake can complete with a peer that presents no certificate is set
\* by the TLS configuration of the goio server; indexing the empty list
\* panics.
Handshake(s) ==
    LET r == sess[s] IN
    /\ r.pc = "Handshake"
    /\ r.handler = "HandleServerConn"
    /\ \E ok \in BOOLEAN, certs \in 0..1 :
          IF ~ok THEN
              /\ Set(s, ReturnErr([r EXCEPT !.fault = TRUE], "handshake"))
              /\ UNCHANGED daemon
          ELSE IF certs = 0 THEN
              Panic(s, [r EXCEPT !.sig = "", !.result = "index out of range"])
          ELSE
              /\ Set(s, [r EXCEPT !.pc = "ReadCommand"])
              /\ UNCHANGED daemon
    /\ UNCHANGED <<fs, bak, now, conns, calc>>

\* Dispatch with a PING case that falls through to the DEPLOY code.
Dispatch_PingFallsThrough(r, cmd) ==
    CASE cmd = CommandDEPLOY -> [r EXCEPT !.pc = "Identify"]
      [] cmd = CommandPING -> [r EXCEPT !.pc = "Identify"]
      [] OTHER -> Return(r, StatusUnsupported, <<"The command is unsupported.">>)

\* Dispatch with a PING that is answered by closing without a status.
Dispatch_SilentPing(r, cmd) ==
    CASE cmd = CommandDEPLOY -> [r EXCEPT !.pc = "Identify"]
      [] cmd = CommandPING -> [r EXCEPT !.pc = "Done"]
      [] OTHER -> Return(r, StatusUnsupported, <<"The command is unsupported.">>)

\* The switch on the command: what is written for PING and for a command
\* that is neither DEPLOY nor PING.
Dispatch(r, cmd) ==
    CASE cmd = CommandDEPLOY -> [r EXCEPT !.pc = "Identify"]
      [] cmd = CommandPING -> Return(r, StatusOK, <<>>)
      [] OTHER -> Return(r, StatusUnsupported, <<"The command is unsupported.">>)

\* goio.ReadCommand and the switch on the command
ReadCommand(s) ==
    LET r == sess[s] IN
    /\ r.pc = "ReadCommand"
    /\ \/ Set(s, ReturnErr([r EXCEPT !.fault = TRUE], "readcommand"))
       \/ \E cmd \in Commands, input \in Inputs :
             Set(s, Dispatch([r EXCEPT !.cmd = cmd, !.input = input], cmd))
    /\ UNCHANGED <<fs, bak, now, conns, daemon, calc>>

\* Identify with the target looked up before the signature's name is tested.
Identify_TargetFirst(sig, lookupErr, input) ==
    LET name == GetSignatureName(sig)
        target == GetTargetByName(input)
    IN  IF lookupErr THEN
            [pass |-> FALSE, code |-> StatusNotOK,
             msg |-> <<"Failed to look up signature.">>,
             name |-> "", target |-> Nil,
             checks |-> <<"GetSignatureName">>]
        ELSE IF target = Nil THEN
            [pass |-> FALSE, code |-> StatusNotExist,
             msg |-> <<"The target does not exist.">>,
             name |-> name, target |-> Nil,
             checks |-> <<"GetSignatureName", "GetTargetByName">>]
        ELSE IF name = "" THEN
            [pass |-> FALSE, code |-> StatusBlocked,
             msg |-> <<"You signature was not accepted.">>,
             name |-> name, target |-> target,
             checks |-> <<"GetSignatureName", "GetTargetByName">>]
        ELSE IF ~Allows(target, name) THEN
            [pass |-> FALSE, code |-> StatusBlocked,
             msg |-> <<"You do not have permission to deploy this target.">>,
             name |-> name, target |-> target,
             checks |-> <<"GetSignatureName", "GetTargetByName", "Allows">>]
        ELSE
            [pass |-> TRUE, code |-> StatusOK, msg |-> <<>>,
             name |-> name, target |-> target,
             checks |-> <<"GetSignatureName", "GetTargetByName", "Allows">>]

\* Identify with the permission test before the existence test.
Identify_AllowsFirst(sig, lookupErr, input) ==
    LET name == GetSignatureName(sig)
        target == GetTargetByName(input)
    IN  IF lookupErr THEN
            [pass |-> FALSE, code |-> StatusNotOK,
             msg |-> <<"Failed to look up signature.">>,
             name |-> "", target |-> Nil,
             checks |-> <<"GetSignatureName">>]
        ELSE IF name = "" THEN
            [pass |-> FALSE, code |-> StatusBlocked,
             msg |-> <<"You signature was not accepted.">>,
             name |-> name, target |-> Nil,
             checks |-> <<"GetSignatureName">>]
        ELSE IF ~Allows(target, name) THEN
            [pass |-> FALSE, code |-> StatusBlocked,
             msg |-> <<"You do not have permission to deploy this target.">>,
             name |-> name, target |-> target,
             checks |-> <<"GetSignatureName", "Allows">>]
        ELSE IF target = Nil THEN
            [pass |-> FALSE, code |-> StatusNotExist,
             msg |-> <<"The target does not exist.">>,
             name |-> name, target |-> Nil,
             checks |-> <<"GetSignatureName", "Allows", "GetTargetByName">>]
        ELSE
            [pass |-> TRUE, code |-> StatusOK, msg |-> <<>>,
             name |-> name, target |-> target,
             checks |-> <<"GetSignatureName", "Allows", "GetTargetByName">>]

\* Identify without the permission test of the target.
Identify_NoAllows(sig, lookupErr, input) ==
    LET name == GetSignatureName(sig)
        target == GetTargetByName(input)
    IN  IF lookupErr THEN
            [pass |-> FALSE, code |-> StatusNotOK,
             msg |-> <<"Failed to look up signature.">>,
             name |-> "", target |-> Nil,
             checks |-> <<"GetSignatureName">>]
        ELSE IF name = "" THEN
            [pass |-> FALSE, code |-> StatusBlocked,
             msg |-> <<"You signature was not accepted.">>,
             name |-> name, target |-> Nil,
             checks |-> <<"GetSignatureName">>]
        ELSE IF target = Nil THEN
            [pass |-> FALSE, code |-> StatusNotExist,
             msg |-> <<"The target does not exist.">>,
             name |-> name, target |-> Nil,
             checks |-> <<"GetSignatureName", "GetTargetByName">>]
        ELSE
            [pass |-> TRUE, code |-> StatusOK, msg |-> <<>>,
             name |-> name, target |-> target,
             checks |-> <<"GetSignatureName", "GetTargetByName">>]

\* Lines 54-67: the outcome of the identity, existence and permission
\* checks, with the checks evaluated, in order.
Identify(sig, lookupErr, input) ==
    LET name == GetSignatureName(sig)
        target == GetTargetByName(input)
    IN  IF lookupErr THEN
            [pass |-> FALSE, code |-> StatusNotOK,
             msg |-> <<"Failed to look up signature.">>,
             name |-> "", target |-> Nil,
             checks |-> <<"GetSignatureName">>]
        ELSE IF name = "" THEN
            [pass |-> FALSE, code |-> StatusBlocked,
             msg |-> <<"You signature was not accepted.">>,
             name |-> name, target |-> Nil,
             checks |-> <<"GetSignatureName">>]
        ELSE IF target = Nil THEN
            [pass |-> FALSE, code |-> StatusNotExist,
             msg |-> <<"The target does not exist.">>,
             name |-> name, target |-> Nil,
             checks |-> <<"GetSignatureName", "GetTargetByName">>]
        ELSE IF ~Allows(target, name) THEN
            [pass |-> FALSE, code |-> StatusBlocked,
             msg |-> <<"You do not have permission to deploy this target.">>,
             name |-> name, target |-> target,
             checks |-> <<"GetSignatureName", "GetTargetByName", "Allows">>]
        ELSE
            [pass |-> TRUE, code |-> StatusOK, msg |-> <<>>,
             name |-> name, target |-> target,
             checks |-> <<"GetSignatureName", "GetTargetByName", "Allows">>]

IdentifyStep(s) ==
    LET r == sess[s] IN
    /\ r.pc = "Identify"
    /\ \E lookupErr \in BOOLEAN :
          LET d == Identify(r.sig, lookupErr, r.input)
              r1 == [r EXCEPT !.name = d.name, !.target = d.target,
                              !.ops = @ \o d.checks,
                              !.lookupErr = lookupErr,
                              !.fault = lookupErr]
          IN  IF d.pass THEN Set(s, [r1 EXCEPT !.pc = "TempFile"])
                        ELSE Set(s, Return(r1, d.code, d.msg))
    /\ UNCHANGED <<fs, bak, now, conns, daemon, calc>>

\* ioutil.TempFile(os.TempDir(), "deployctl-")
TempFile(s) ==
    LET r == sess[s] IN
    /\ r.pc = "TempFile"
    /\ \E ok \in BOOLEAN :
          IF ok THEN Set(s, Log([r EXCEPT !.pc = "Ack", !.tmpfile = TRUE],
                                "TempFile"))
                ELSE Set(s, Return([r EXCEPT !.fault = TRUE], StatusNotOK,
                       <<"There was an error creating a temporary file.">>))
    /\ UNCHANGED <<fs, bak, now, conns, daemon, calc>>

\* goio.Ok(ctx.C): the OK-to-proceed acknowledgement
Ack(s) ==
    LET r == sess[s] IN
    /\ r.pc = "Ack"
    /\ \E ok \in BOOLEAN :
          IF ok THEN Set(s, Log([r EXCEPT !.pc = "ReadStream",
                                    !.sent = Append(@, Status(StatusOK, <<>>, "Ack"))],
                                "Ack"))
                ELSE Set(s, ReturnErr([r EXCEPT !.fault = TRUE], "ack"))
    /\ UNCHANGED <<fs, bak, now, conns, daemon, calc>>

\* ------------------------------------------------------------ the client
\* PackTar(filename, sw, ignored): walks the path and writes each entry's
\* header and content to the stream writer as it goes; on an unreadable
\* path it returns the error, with the entries written so far already on
\* the stream. The result is [err, written].
PackTarStream(written, unreadable) == [err |-> unreadable, written |-> written]

\* HandleClientConn after the command was sent: PackTar into the stream
\* writer, then sw.Terminate() (the end-of-stream marker) whatever PackTar
\* returned, then the test of PackTar's error. The result is what the
\* connection carries and the error the client ends with.
HandleClientConn(written, unreadable) ==
    LET p == PackTarStream(written, unreadable) IN
    [entries |-> p.written, terminated |-> TRUE, err |-> p.err]

\* ReadStream whose error is not tested: the handler goes on with what
\* the temporary file holds.
ReadStream_IgnoresError(s) ==
    LET r == sess[s] IN
    /\ r.pc = "ReadStream"
    /\ \/ \E n \in 0..MaxEntries :
             Set(s, Log([r EXCEPT !.pc = "PrepareTarget", !.entries = n,
                                  !.bytes = TRUE], "ReadStream"))
       \/ \E b \in BOOLEAN, n \in 0..MaxEntries :
             Set(s, [r EXCEPT !.pc = "PrepareTarget", !.entries = n,
                              !.fault = TRUE, !.bytes = b, !.result = "closed"])
       \/ \E b \in BOOLEAN, n \in 0..MaxEntries :
             Set(s, [r EXCEPT !.pc = "PrepareTarget", !.entries = n,
                              !.fault = TRUE, !.bytes = b])
    /\ UNCHANGED <<fs, bak, now, conns, daemon, calc>>

\* goio.ReadStream(ctx.C, f): the whole archive up to the end-of-stream
\* marker, or a closed connection, or another I/O error.
ReadStream(s) ==
    LET r == sess[s] IN
    /\ r.pc = "ReadStream"
    /\ \/ \E n \in 0..MaxEntries, unreadable \in BOOLEAN :
             LET c == HandleClientConn(n, unreadable) IN
             /\ c.terminated
             /\ Set(s, Log([r EXCEPT !.pc = "PrepareTarget",
                                     !.entries = c.entries,
                                     !.packErr = c.err,
                                     !.bytes = TRUE], "ReadStream"))
       \/ \E b \in BOOLEAN :
             Set(s, ReturnErr([r EXCEPT !.fault = TRUE, !.bytes = b], "closed"))
       \/ \E b \in BOOLEAN :
             Set(s, Return([r EXCEPT !.fault = TRUE, !.bytes = b], StatusNotOK,
                           <<"The transmission was broken.">>))
    /\ UNCHANGED <<fs, bak, now, conns, daemon, calc>>

\* PrepareTarget(f): rs.Seek(0, 0) and UnpackTar. UnpackTar creates the
\* staging directory first; when a later entry fails it returns the
\* directory together with the error, and the handler returns before it
\* registers the deferred os.RemoveAll(tmpdir).
PrepareTarget(s) ==
    LET r == sess[s] IN
    /\ r.pc = "PrepareTarget"
    /\ \E outcome \in {"ok", "nodir", "corrupt"} :
          CASE outcome = "ok" ->
                 Set(s, Log([r EXCEPT !.pc = "Before", !.tmpdir = TRUE], "Unpack"))
            [] outcome = "nodir" ->
                 Set(s, Return([r EXCEPT !.fault = TRUE], StatusNotOK,
                               <<"Issue with relocating files.">>))
            [] outcome = "corrupt" ->
                 Set(s, [Return([r EXCEPT !.fault = TRUE], StatusNotOK,
                                <<"Issue with relocating files.">>)
                           EXCEPT !.tmpdir = TRUE])
    /\ UNCHANGED <<fs, bak, now, conns, daemon, calc>>

\* RunScript(target.Before, ctx.Log)
RunBefore(s) ==
    LET r == sess[s] IN
    /\ r.pc = "Before"
    /\ r.handler = "HandleServerConn"
    /\ \E ok \in BOOLEAN :
          IF RunScript(Before(r.target), ok)
          THEN Set(s, [r EXCEPT !.pc = "BackupTarget",
                                !.ops = IF TrimSpace(Before(r.target)) = <<>> THEN @
                                        ELSE Append(@, "BeforeOk")])
          ELSE Set(s, Return(Log(r, "BeforeFail"), StatusNotOK,
                             <<"Issue running Before script.">>))
    /\ UNCHANGED <<fs, bak, now, conns, daemon, calc>>


\* BackupTarget with a missing artifact reported as an error.
BackupTarget_MissingIsError(t, outcome, fs0, bak0, ts) ==
    IF outcome = "mkdir" \/ outcome = "stat" \/ fs0[t] = NoFile THEN
        [err |-> TRUE, backup |-> EmptyPath, fs |-> fs0, bak |-> bak0]
    ELSE IF outcome = "rename" THEN
        [err |-> TRUE, backup |-> BakName(t, ts), fs |-> fs0, bak |-> bak0]
    ELSE
        [err |-> FALSE, backup |-> BakName(t, ts),
         fs |-> [fs0 EXCEPT ![t] = NoFile],
         bak |-> [bak0 EXCEPT ![BakName(t, ts)] = fs0[t]]]

\* BackupTarget whose failing rename has already moved the artifact away
\* (a copy-and-delete that fails after the delete).
BackupTarget_PartialRename(t, outcome, fs0, bak0, ts) ==
    IF outcome = "mkdir" THEN
        [err |-> TRUE, backup |-> EmptyPath, fs |-> fs0, bak |-> bak0]
    ELSE IF fs0[t] = NoFile THEN
        [err |-> FALSE, backup |-> EmptyPath, fs |-> fs0, bak |-> bak0]
    ELSE IF outcome = "stat" THEN
        [err |-> TRUE, backup |-> EmptyPath, fs |-> fs0, bak |-> bak0]
    ELSE
        [err |-> outcome = "rename", backup |-> BakName(t, ts),
         fs |-> [fs0 EXCEPT ![t] = NoFile],
         bak |-> [bak0 EXCEPT ![BakName(t, ts)] = fs0[t]]]

\* BackupTarget(*target, ctx.Config.BackupDirectory): os.MkdirAll, os.Stat,
\* and the rename of the artifact to <dir>/<name>.<timestamp>.bak.
\* The result is [err, backup, fs, bak].
BackupTarget(t, outcome, fs0, bak0, ts) ==
    IF outcome = "mkdir" THEN
        [err |-> TRUE, backup |-> EmptyPath, fs |-> fs0, bak |-> bak0]
    ELSE IF fs0[t] = NoFile THEN
        \* os.IsNotExist: the binary never existed before
        [err |-> FALSE, backup |-> EmptyPath, fs |-> fs0, bak |-> bak0]
    ELSE IF outcome = "stat" THEN
        [err |-> TRUE, backup |-> EmptyPath, fs |-> fs0, bak |-> bak0]
    ELSE IF outcome = "rename" THEN
        [err |-> TRUE, backup |-> BakName(t, ts), fs |-> fs0, bak |-> bak0]
    ELSE
        [err |-> FALSE, backup |-> BakName(t, ts),
         fs |-> [fs0 EXCEPT ![t] = NoFile],
         bak |-> [bak0 EXCEPT ![BakName(t, ts)] = fs0[t]]]

BackupStep(s) ==
    LET r == sess[s] IN
    /\ r.pc = "BackupTarget"
    /\ \E outcome \in {"ok", "mkdir", "stat", "rename"} :
          LET b == BackupTarget(r.target, outcome, fs, bak, now) IN
          /\ fs' = b.fs
          /\ bak' = b.bak
          /\ IF b.err
             THEN Set(s, Return([r EXCEPT !.fault = (outcome # "ok")], StatusNotOK,
                         <<"Failed to backup the target. Please attend.">>))
             ELSE Set(s, [r EXCEPT !.pc = "MoveTarget", !.backup = b.backup,
                                   !.fault = (outcome # "ok"),
                                   !.ops = IF b.backup = EmptyPath THEN @
                                           ELSE Append(@, "BackupRename")])
    /\ UNCHANGED <<now, conns, daemon, calc>>

\* MoveTarget with the one-entry test inverted.
MoveTarget_RejectsSingle(entries, outcome) ==
    IF outcome \in {"mkdir", "readdir"} THEN "err"
    ELSE IF entries = 1 THEN "invalid"
    ELSE IF outcome = "rename" THEN "err"
    ELSE "ok"

\* MoveTarget(tmpdir, target.Filename): os.MkdirAll of the parent,
\* ioutil.ReadDir(tmpdir), the one-entry check, os.Rename.
\* The result is "ok", "invalid" (ErrInvalidPayload) or "err".
MoveTarget(entries, outcome) ==
    IF outcome \in {"mkdir", "readdir"} THEN "err"
    ELSE IF entries # 1 THEN "invalid"
    ELSE IF outcome = "rename" THEN "err"
    ELSE "ok"

MoveStep(s) ==
    LET r == sess[s] IN
    /\ r.pc = "MoveTarget"
    /\ \E outcome \in {"ok", "mkdir", "readdir", "rename"} :
          LET m == MoveTarget(r.entries, outcome) IN
          CASE m = "ok" ->
                 /\ fs' = [fs EXCEPT ![r.target] = Payload(r.id)]
                 /\ Set(s, Log([r EXCEPT !.pc = "After"], "ActivateRename"))
            [] m = "invalid" ->
                 /\ fs' = fs
                 /\ Set(s, Log([r EXCEPT !.pc = "RestoreRemove",
                        !.fault = (outcome # "ok"),
                        !.msg = <<"Expected only one directory or file in the TAR payload.">>],
                        "MoveInvalid"))
            [] m = "err" ->
                 /\ fs' = fs
                 /\ Set(s, Log([r EXCEPT !.pc = "RestoreRemove",
                        !.fault = (outcome # "ok"),
                        !.msg = <<"Failed to move target files.">>],
                        "MoveFail"))
    /\ UNCHANGED <<bak, now, conns, daemon, calc>>

\* RunScript(target.After, ctx.Log) after the activation
RunAfter(s) ==
    LET r == sess[s] IN
    /\ r.pc = "After"
    /\ r.handler = "HandleServerConn"
    /\ \E ok \in BOOLEAN :
          IF RunScript(After(r.target), ok)
          THEN Set(s, Log([r EXCEPT !.pc = "Commit"], "AfterOk"))
          ELSE Set(s, Log([r EXCEPT !.pc = "RestoreRemove",
                                    !.msg = <<"Issue running After script.">>],
                          "AfterFail"))
    /\ UNCHANGED <<fs, bak, now, conns, daemon, calc>>

\* The report of a failed restore without the request for attention.
RestoreFailed_Quiet(r) == Return(r, StatusNotOK, r.msg)

RestoreFailed(r) ==
    Return(r, StatusNotOK,
           r.msg \o <<" Restoring from backup failed. Please attend.">>)

RestoreSucceeded(r) ==
    Return(r, StatusNotOK, r.msg \o <<" Restore executed successfully.">>)

\* restore(), first call: os.RemoveAll(target.Filename)
RestoreRemove(s) ==
    LET r == sess[s] IN
    /\ r.pc = "RestoreRemove"
    /\ \E ok \in BOOLEAN :
          IF ok
          THEN /\ fs' = [fs EXCEPT ![r.target] = NoFile]
               /\ Set(s, Log([r EXCEPT !.pc = "RestoreRename"], "RestoreRemove"))
          ELSE /\ fs' = fs
               /\ Set(s, RestoreFailed([r EXCEPT !.fault = TRUE]))
    /\ UNCHANGED <<bak, now, conns, daemon, calc>>

\* The restoring rename with its arguments swapped:
\* os.Rename(target.Filename, backup).
RestoreRenameSwapped(t, backup, ok, fs0, bak0) ==
    IF backup = EmptyPath \/ ~ok \/ fs0[t] = NoFile
    THEN [err |-> TRUE, fs |-> fs0, bak |-> bak0]
    ELSE [err |-> FALSE,
          fs |-> [fs0 EXCEPT ![t] = NoFile],
          bak |-> [bak0 EXCEPT ![backup] = fs0[t]]]

\* os.Rename(backup, target.Filename): the result is [err, fs, bak].
\* The rename of the empty path (no backup was made) always fails.
RestoreRenameOp(t, backup, ok, fs0, bak0) ==
    IF backup = EmptyPath \/ ~ok THEN [err |-> TRUE, fs |-> fs0, bak |-> bak0]
    ELSE IF bak0[backup] = NoFile THEN [err |-> TRUE, fs |-> fs0, bak |-> bak0]
    ELSE [err |-> FALSE,
          fs |-> [fs0 EXCEPT ![t] = bak0[backup]],
          bak |-> [bak0 EXCEPT ![backup] = NoFile]]

\* restore(), second call
RestoreRename(s) ==
    LET r == sess[s] IN
    /\ r.pc = "RestoreRename"
    /\ \E ok \in BOOLEAN :
          LET x == RestoreRenameOp(r.target, r.backup, ok, fs, bak) IN
          /\ fs' = x.fs
          /\ bak' = x.bak
          /\ IF x.err
             THEN Set(s, RestoreFailed([r EXCEPT !.fault = (@ \/ ~ok)]))
             ELSE Set(s, Log([r EXCEPT !.pc = "RestoreAfter"], "RestoreRename"))
    /\ UNCHANGED <<now, conns, daemon, calc>>

\* restore(), third call: RunScript(target.After, ctx.Log) again
RestoreAfter(s) ==
    LET r == sess[s] IN
    /\ r.pc = "RestoreAfter"
    /\ \E ok \in BOOLEAN :
          IF RunScript(After(r.target), ok)
          THEN Set(s, RestoreSucceeded(Log(r, "ReAfterOk")))
          ELSE Set(s, RestoreFailed(Log(r, "ReAfterFail")))
    /\ UNCHANGED <<fs, bak, now, conns, daemon, calc>>

\* Lines 148-155: delete the backup (a failure is only logged), then OK.
Commit(s) ==
    LET r == sess[s] IN
    /\ r.pc = "Commit"
    /\ r.handler = "HandleServerConn"
    /\ IF r.backup = EmptyPath
       THEN /\ bak' = bak
            /\ Set(s, Return(r, StatusOK, <<>>))
       ELSE \E ok \in BOOLEAN :
              IF ok
              THEN /\ bak' = [bak EXCEPT ![r.backup] = NoFile]
                   /\ Set(s, Return(Log(r, "DeleteBackup"), StatusOK, <<>>))
              ELSE /\ bak' = bak
                   /\ Set(s, Return([r EXCEPT !.fault = TRUE], StatusOK, <<>>))
    /\ UNCHANGED <<fs, now, conns, daemon, calc>>

HandleServerConn(s) ==
    \/ Handshake(s)
    \/ ReadCommand(s)
    \/ IdentifyStep(s)
    \/ TempFile(s)
    \/ Ack(s)
    \/ ReadStream(s)
    \/ PrepareTarget(s)
    \/ RunBefore(s)
    \/ BackupStep(s)
    \/ MoveStep(s)
    \/ RunAfter(s)
    \/ RestoreRemove(s)
    \/ RestoreRename(s)
    \/ RestoreAfter(s)
    \/ Commit(s)


\* ------------------------------------------------------- AcceptPayload
\* Conf of the password variant: the actors with their passwords, and the
\* units (the same names and paths as the targets above).
Actors == <<[Name |-> "alice", Password |-> "pwAlice"],
            [Name |-> "bob", Password |-> "pwBob"]>>
Units == <<[Name |-> "app", AllowedActors |-> <<"alice">>,
            BeforeCmds |-> << <<"x">> >>, AfterCmds |-> << <<"x">> >>],
           [Name |-> "web", AllowedActors |-> <<"alice", "bob">>,
            BeforeCmds |-> <<>>, AfterCmds |-> << <<"x">> >>]>>
ZeroUnit == [Name |-> "", AllowedActors |-> <<>>,
             BeforeCmds |-> <<>>, AfterCmds |-> <<>>]
ActorInputs == {"alice", "bob", "mallory"}
Passwords == {"pwAlice", "pwBob", "guess"}

StrInList(xs, x) == \E i \in 1..Len(xs) : xs[i] = x

\* The configuration the daemon of the password variant was started with.
Conf == [Actors |-> Actors, Units |-> Units]

\* GetUnit(c, name): the first unit of that name, or the zero Unit.
GetUnitOf(c, name) ==
    IF \E i \in 1..Len(c.Units) : c.Units[i].Name = name
    THEN c.Units[CHOOSE i \in 1..Len(c.Units) :
                   /\ c.Units[i].Name = name
                   /\ \A j \in 1..(i - 1) : c.Units[j].Name # name]
    ELSE ZeroUnit

GetUnit(name) == GetUnitOf(Conf, name)

\* GetPass: the password of the first actor of that name, or "".
GetPass(name) ==
    IF \E i \in 1..Len(Actors) : Actors[i].Name = name
    THEN Actors[CHOOSE i \in 1..Len(Actors) :
                  /\ Actors[i].Name = name
                  /\ \A j \in 1..(i - 1) : Actors[j].Name # name].Password
    ELSE ""

\* CheckAuth without the test that a unit of that name exists.
CheckAuthOf_NoExistenceTest(c, unit, name) ==
    /\ StrInList([i \in 1..Len(c.Actors) |-> c.Actors[i].Name], name)
    /\ ~ \E i \in 1..Len(c.Units) :
           /\ c.Units[i].Name = unit
           /\ ~StrInList(c.Units[i].AllowedActors, name)

\* CheckAuth(c, unit, name): the actor exists, no unit of that name leaves
\* the actor out of AllowedActors (the loop returns false at the first one
\* that does, wherever it stands in the list), and a unit of that name
\* exists.
CheckAuthOf(c, unit, name) ==
    /\ StrInList([i \in 1..Len(c.Actors) |-> c.Actors[i].Name], name)
    /\ ~ \E i \in 1..Len(c.Units) :
           /\ c.Units[i].Name = unit
           /\ ~StrInList(c.Units[i].AllowedActors, name)
    /\ StrInList([i \in 1..Len(c.Units) |-> c.Units[i].Name], unit)

CheckAuth(unit, name) == CheckAuthOf(Conf, unit, name)

\* Decrypt(tarBuf, GetPass(c, actor)): gcm.Open authenticates the payload
\* under the key derived from the actor's password.
Decrypt(sealedWith, passphrase) == sealedWith = passphrase

\* A return of AcceptPayload: the deferred os.RemoveAll(dir) runs.
APReturn(r, result) == [r EXCEPT !.pc = "Done", !.result = result, !.tmpdir = FALSE]

\* ReadConnStr(conn, 64) twice, ReadConnInt64, and CheckAuth
ReadHeader(s) ==
    LET r == sess[s] IN
    /\ r.pc = "ReadHeader"
    /\ \/ Set(s, APReturn([r EXCEPT !.fault = TRUE], "read error"))
       \/ \E unitName \in Inputs, actor \in ActorInputs :
             LET r1 == [r EXCEPT !.input = unitName, !.name = actor] IN
             IF CheckAuth(unitName, actor)
             THEN Set(s, [r1 EXCEPT !.pc = "ReadConnSec"])
             ELSE Set(s, APReturn(r1, "invalid authorization"))
    /\ UNCHANGED <<fs, bak, now, conns, daemon, calc>>

\* ReadConnSec(conn, fileSize) and Decrypt. Decrypt slices
\* data[:gcm.NonceSize()] without testing len(data): a payload shorter than
\* the nonce panics.
ReadAndDecrypt(s) ==
    LET r == sess[s] IN
    /\ r.pc = "ReadConnSec"
    /\ \/ /\ Set(s, APReturn([r EXCEPT !.fault = TRUE], "read error"))
          /\ UNCHANGED daemon
       \/ Panic(s, [r EXCEPT !.bytes = TRUE,
                             !.result = "slice bounds out of range"])
       \/ /\ \E pw \in Passwords, n \in 0..MaxEntries :
                LET r1 == [r EXCEPT !.pass = pw, !.bytes = TRUE] IN
                IF Decrypt(pw, GetPass(r.name))
                THEN Set(s, Log([r1 EXCEPT !.pc = "UnpackTar", !.entries = n],
                                "ReadStream"))
                ELSE Set(s, APReturn(r1, "decrypt error"))
          /\ UNCHANGED daemon
    /\ UNCHANGED <<fs, bak, now, conns, calc>>

\* UnpackTar, with `defer os.RemoveAll(dir)` registered whenever a
\* directory was created; then GetUnit, TriggerUnit(stop) (which never
\* reports an error) and os.MkdirAll of the parent directory.
UnpackAndStop(s) ==
    LET r == sess[s] IN
    /\ r.pc = "UnpackTar"
    /\ \E outcome \in {"ok", "unpack", "mkdir"} :
          CASE outcome = "unpack" ->
                 Set(s, APReturn([r EXCEPT !.fault = TRUE], "unpack error"))
            [] outcome = "mkdir" ->
                 Set(s, APReturn(Log(Log([r EXCEPT !.fault = TRUE,
                                                   !.target = GetUnit(r.input).Name],
                                         "Unpack"), "Stop"), "mkdir error"))
            [] outcome = "ok" ->
                 Set(s, Log(Log([r EXCEPT !.pc = "APBackup", !.tmpdir = TRUE,
                                          !.target = GetUnit(r.input).Name],
                                "Unpack"), "Stop"))
    /\ UNCHANGED <<fs, bak, now, conns, daemon, calc>>

\* Lines 614-628: os.Stat(unit.Filepath) and the rename to the backup path.
\* The result is [err, backupExists, backup, fs, bak].
APBackupOp(t, outcome, fs0, bak0, ts) ==
    IF fs0[t] = NoFile THEN
        IF outcome = "stat"
        THEN [err |-> TRUE, backup |-> EmptyPath, fs |-> fs0, bak |-> bak0]
        ELSE [err |-> FALSE, backup |-> EmptyPath, fs |-> fs0, bak |-> bak0]
    ELSE IF outcome = "stat" THEN
        [err |-> TRUE, backup |-> EmptyPath, fs |-> fs0, bak |-> bak0]
    ELSE IF outcome = "rename" THEN
        [err |-> TRUE, backup |-> BakName(t, ts), fs |-> fs0, bak |-> bak0]
    ELSE
        [err |-> FALSE, backup |-> BakName(t, ts),
         fs |-> [fs0 EXCEPT ![t] = NoFile],
         bak |-> [bak0 EXCEPT ![BakName(t, ts)] = fs0[t]]]

APBackup(s) ==
    LET r == sess[s] IN
    /\ r.pc = "APBackup"
    /\ \E outcome \in {"ok", "stat", "rename"} :
          LET b == APBackupOp(r.target, outcome, fs, bak, now) IN
          /\ fs' = b.fs
          /\ bak' = b.bak
          /\ IF b.err
             THEN Set(s, APReturn([r EXCEPT !.fault = (outcome # "ok")], "backup error"))
             ELSE Set(s, [r EXCEPT !.pc = "APMove", !.backup = b.backup,
                                   !.fault = (outcome # "ok"),
                                   !.ops = IF b.backup = EmptyPath THEN @
                                           ELSE Append(@, "BackupRename")])
    /\ UNCHANGED <<now, conns, daemon, calc>>

\* Lines 630-645: ioutil.ReadDir(dir), the one-entry check and the rename
\* into unit.Filepath. Each failure returns the error as it is.
APMove(s) ==
    LET r == sess[s] IN
    /\ r.pc = "APMove"
    /\ \E outcome \in {"ok", "readdir", "rename"} :
          IF outcome = "readdir" THEN
              /\ fs' = fs
              /\ Set(s, APReturn(Log([r EXCEPT !.fault = TRUE], "MoveFail"),
                                 "readdir error"))
          ELSE IF r.entries # 1 THEN
              /\ fs' = fs
              /\ Set(s, APReturn(Log(r, "MoveInvalid"),
                                 "expected a single item in tar"))
          ELSE IF outcome = "rename" THEN
              /\ fs' = fs
              /\ Set(s, APReturn(Log([r EXCEPT !.fault = TRUE], "MoveFail"),
                                 "rename error"))
          ELSE
              /\ fs' = [fs EXCEPT ![r.target] = Payload(r.id)]
              /\ Set(s, Log([r EXCEPT !.pc = "BeforeCmds"], "ActivateRename"))
    /\ UNCHANGED <<bak, now, conns, daemon, calc>>

\* RunUnitCmds: every command of the list in order; a command whose first
\* piece is empty ends the loop with "cmd name is blank", and so does the
\* first one that cannot be spawned or exits non-zero, with its error
\* (ok = every process could be spawned and exited zero).
RunUnitCmds(cmds, ok) ==
    \/ cmds = <<>>
    \/ ok /\ \A i \in 1..Len(cmds) : Split(cmds[i])[1] # <<>>

\* The process RunUnitCmds starts for one command: exec.Command(name,
\* params...) with toRun.Dir = unit.Filepath.
RunUnitCmd(unit, cmd) ==
    LET parts == Split(cmd)
    IN  [Path |-> parts[1],
         Args |-> IF Len(cmd) > 1 THEN Tail(parts) ELSE <<>>,
         Dir |-> unit.Filepath]

\* restoreBackup(err) entered: with no backup the error is returned as is.
EnterRestore(r, why) ==
    IF r.backup # EmptyPath
    THEN [r EXCEPT !.pc = "MoveAside", !.msg = <<why>>]
    ELSE APReturn(r, why)

\* RunBeforeCmds(unit), run after the activation
RunBeforeCmds(s) ==
    LET r == sess[s] IN
    /\ r.pc = "BeforeCmds"
    /\ \E ok \in BOOLEAN :
          IF RunUnitCmds(GetUnit(r.input).BeforeCmds, ok)
          THEN Set(s, [r EXCEPT !.pc = "AfterCmds",
                                !.ops = IF GetUnit(r.input).BeforeCmds = <<>> THEN @
                                        ELSE Append(@, "BeforeOk")])
          ELSE Set(s, EnterRestore(Log(r, "BeforeFail"), "before error"))
    /\ UNCHANGED <<fs, bak, now, conns, daemon, calc>>

\* TriggerUnit(unit, action): `systemctl <action> <target>` for every
\* system target; an error of RunCmd (the process cannot be spawned or
\* exits non-zero: exits = FALSE) is logged, and nil is returned.
TriggerUnit(action, exits) == TRUE

\* TriggerUnit(unit, ActionStart), with restoreBackup on its error, and
\* RunAfterCmds(unit)
RunAfterCmds(s) ==
    LET r == sess[s] IN
    /\ r.pc = "AfterCmds"
    /\ \E started \in BOOLEAN, ok \in BOOLEAN :
          LET r1 == Log(r, IF started THEN "Start" ELSE "StartFail") IN
          IF ~TriggerUnit("start", started)
          THEN Set(s, EnterRestore(r1, "start error"))
          ELSE IF RunUnitCmds(GetUnit(r.input).AfterCmds, ok)
          THEN Set(s, Log([r1 EXCEPT !.pc = "DeleteBackup"], "AfterOk"))
          ELSE Set(s, EnterRestore(Log(r1, "AfterFail"), "after error"))
    /\ UNCHANGED <<fs, bak, now, conns, daemon, calc>>

\* restoreBackup: os.Rename(unit.Filepath, failedBackup), where
\* failedBackup is <dir>/<name>.<timestamp>.failed.bak
MoveAside(s) ==
    LET r == sess[s]
        failedBackup == FailedBakName(r.target, now)
    IN
    /\ r.pc = "MoveAside"
    /\ \E ok \in BOOLEAN :
          IF ok
          THEN /\ bak' = [bak EXCEPT ![failedBackup] = fs[r.target]]
               /\ fs' = [fs EXCEPT ![r.target] = NoFile]
               /\ Set(s, Log([r EXCEPT !.pc = "RestoreBackup",
                                       !.failed = failedBackup], "MoveAside"))
          ELSE /\ UNCHANGED <<fs, bak>>
               /\ Set(s, APReturn([r EXCEPT !.fault = TRUE], "move aside error"))
    /\ UNCHANGED <<now, conns, daemon, calc>>

\* restoreBackup: os.Rename(backupPath, unit.Filepath), then
\* TriggerUnit(unit, ActionRestart), which always returns nil
RestoreBackup(s) ==
    LET r == sess[s] IN
    /\ r.pc = "RestoreBackup"
    /\ \E ok \in BOOLEAN :
          LET x == RestoreRenameOp(r.target, r.backup, ok, fs, bak) IN
          /\ fs' = x.fs
          /\ bak' = x.bak
          /\ IF x.err
             THEN Set(s, APReturn([r EXCEPT !.fault = TRUE], "restore error"))
             ELSE Set(s, Log(Log([r EXCEPT !.pc = "DeleteFailed"],
                                 "RestoreRename"), "Restart"))
    /\ UNCHANGED <<now, conns, daemon, calc>>

\* DeleteBackup(path): os.RemoveAll(path); the result is [err, bak].
DeleteBackup(path, ok, bak0) ==
    IF ~ok THEN [err |-> TRUE, bak |-> bak0]
    ELSE IF path = EmptyPath THEN [err |-> FALSE, bak |-> bak0]
    ELSE [err |-> FALSE, bak |-> [bak0 EXCEPT ![path] = NoFile]]

\* restoreBackup: DeleteBackup(failedBackup), then the error
\* "deploy failed with ... Restored backup"
DeleteFailed(s) ==
    LET r == sess[s] IN
    /\ r.pc = "DeleteFailed"
    /\ \E ok \in BOOLEAN :
          LET d == DeleteBackup(r.failed, ok, bak) IN
          /\ bak' = d.bak
          /\ IF d.err
             THEN Set(s, APReturn([r EXCEPT !.fault = TRUE], "delete error"))
             ELSE Set(s, APReturn(Log(r, "DeleteFailed"),
                                  r.msg[1] \o ". Restored backup"))
    /\ UNCHANGED <<fs, now, conns, daemon, calc>>

\* Lines 695-699: DeleteBackup(backupPath), whose error is returned
APCommit(s) ==
    LET r == sess[s] IN
    /\ r.pc = "DeleteBackup"
    /\ \E ok \in BOOLEAN :
          LET d == DeleteBackup(r.backup, ok, bak) IN
          /\ bak' = d.bak
          /\ IF d.err
             THEN Set(s, APReturn([r EXCEPT !.fault = TRUE], "delete error"))
             ELSE Set(s, APReturn(IF r.backup = EmptyPath THEN r
                                  ELSE Log(r, "DeleteBackup"), "nil"))
    /\ UNCHANGED <<fs, now, conns, daemon, calc>>

AcceptPayload(s) ==
    \/ ReadHeader(s)
    \/ ReadAndDecrypt(s)
    \/ UnpackAndStop(s)
    \/ APBackup(s)
    \/ APMove(s)
    \/ RunBeforeCmds(s)
    \/ RunAfterCmds(s)
    \/ MoveAside(s)
    \/ RestoreBackup(s)
    \/ DeleteFailed(s)
    \/ APCommit(s)

Next ==
    \/ Tick
    \/ \E s \in Slots : Accept(s)
    \/ \E s \in Slots : HandleServerConn(s)
    \/ \E s \in Slots : AcceptPayload(s)

Spec == Init /\ [][Next]_vars

\* The daemon with two connections open at the same time: each accepted
\* connection runs in its own goroutine and the steps of the two handlers
\* interleave freely (no lock is taken anywhere in the handlers). Every
\* target has been deployed before: its path holds an artifact. No
\* snapshot of the filesystem is kept per session, since the other session
\* changes it too. The k-th accepted connection runs in goroutine k: a
\* goroutine is started per connection and never serves another one.
InitConc ==
    /\ fs = [t \in TargetNames |-> OldArtifact]
    /\ bak = [n \in BakNames |-> NoFile]
    /\ now = 0
    /\ conns = 0
    /\ daemon \in Handlers
    /\ sess = [s \in Goroutines |-> IdleSession]
    /\ calc = NoCalc

NextConc ==
    \/ Tick
    \/ \E s \in Goroutines : s = conns + 1 /\ AcceptWith(s, IdleSession.pre)
    \/ \E s \in Goroutines : HandleServerConn(s)
    \/ \E s \in Goroutines : AcceptPayload(s)

SpecConc == InitConc /\ [][NextConc]_vars

\* A step of the goroutine of connection s, whichever handler it runs.
GoroutineStep(s) == HandleServerConn(s) \/ AcceptPayload(s)

\* ---------------------------------------------------------------- UnpackTar
MaxDepth == 2      \* components in the name of an archive entry
MaxArchive == 2    \* entries of an archive given to UnpackTar

\* A string is the sequence of its characters; a path is the sequence of
\* its components below the root.
DotDot == <<".", ".">>
Components == {<<"a">>, DotDot}
SeqsUpTo(S, n) == UNION {[1..k -> S] : k \in 1..n}
\* h.Name: relative or absolute (a leading slash), with its components
EntryNames == [abs : BOOLEAN, parts : SeqsUpTo(Components, MaxDepth)]
TypeDir == "TypeDir"
TypeReg == "TypeReg"
Headers == [Name : EntryNames, Typeflag : {TypeDir, TypeReg}]
Archives == {<<>>} \cup SeqsUpTo(Headers, MaxArchive)

\* ioutil.TempDir(os.TempDir(), "dcontrol-")
StagingDir == << <<"t", "m", "p">>, <<"d">> >>

\* path.Clean of a rooted path: a ".." removes the component before it,
\* and is dropped at the root.
RECURSIVE CleanFrom(_, _)
CleanFrom(stack, parts) ==
    IF parts = <<>> THEN stack
    ELSE IF Head(parts) = DotDot
         THEN CleanFrom(IF stack = <<>> THEN <<>>
                        ELSE SubSeq(stack, 1, Len(stack) - 1), Tail(parts))
         ELSE CleanFrom(Append(stack, Head(parts)), Tail(parts))
Clean(parts) == CleanFrom(<<>>, parts)

\* path.Join(dir, h.Name): the two are joined with a slash and cleaned; the
\* leading slash of an absolute name collapses into the separator.
Join(dir, name) == Clean(dir \o name.parts)

IsPrefix(d, q) == Len(d) <= Len(q) /\ SubSeq(q, 1, Len(d)) = d
Under(d, q) == IsPrefix(d, q) /\ Len(d) < Len(q)
Ancestors(q) == {SubSeq(q, 1, k) : k \in 0..(Len(q) - 1)}

\* UnpackTar has created its directory and is at the head of its loop. The
\* reader holds the entries of the archive; cut says that the stream ends
\* right after the content of its last regular file, before the padding
\* that completes the 512-byte block.
UnpackTarCall(archive, cut) ==
    [fn |-> "UnpackTar", archive |-> archive, cut |-> cut, next |-> 1,
     dirs |-> Ancestors(StagingDir) \cup {StagingDir}, files |-> {},
     made |-> {}, err |-> FALSE, done |-> FALSE]

\* One turn of the loop of UnpackTar: reader.Next(), then os.MkdirAll for
\* a directory entry and os.OpenFile(O_CREATE|O_TRUNC) with io.Copy for a
\* regular file. MkdirAll fails when a component of the path is a file;
\* OpenFile fails when the parent is no directory or the path is one.
\* After the last entry reader.Next() returns io.EOF, or, when the padding
\* of the last file is missing, io.ErrUnexpectedEOF.
UnpackTarStep ==
    /\ calc.fn = "UnpackTar"
    /\ ~calc.done
    /\ IF calc.next > Len(calc.archive)
       THEN calc' = [calc EXCEPT !.err = calc.cut, !.done = TRUE]
       ELSE LET h == calc.archive[calc.next]
                fp == Join(StagingDir, h.Name)
                chain == (Ancestors(fp) \cup {fp})
            IN  IF h.Typeflag = TypeDir
                THEN IF chain \cap calc.files # {}
                     THEN calc' = [calc EXCEPT !.err = TRUE, !.done = TRUE]
                     ELSE calc' = [calc EXCEPT !.next = @ + 1,
                                               !.dirs = @ \cup chain,
                                               !.made = @ \cup (chain \ calc.dirs)]
                ELSE IF fp \in calc.dirs
                        \/ fp = <<>>
                        \/ SubSeq(fp, 1, Len(fp) - 1) \notin calc.dirs
                     THEN calc' = [calc EXCEPT !.err = TRUE, !.done = TRUE]
                     ELSE calc' = [calc EXCEPT !.next = @ + 1,
                                               !.files = @ \cup {fp},
                                               !.made = @ \cup {fp}]
    /\ UNCHANGED <<fs, bak, now, conns, daemon, sess>>

\* ------------------------------------------------------- the client commands
\* What the client reads from the connection: a status, or the end of the
\* connection when the server returned without writing one.
Reply(code, msg) == [code |-> code, msg |-> msg]
Closed == Reply("EOF", <<>>)
NoError == Reply(Nil, <<>>)

\* The statuses HandleServerConn writes in answer to the command, and after
\* the transfer.
EarlyReplies ==
    {Reply(StatusUnsupported, <<"The command is unsupported.">>),
     Reply(StatusNotOK, <<"Failed to look up signature.">>),
     Reply(StatusBlocked, <<"You signature was not accepted.">>),
     Reply(StatusNotExist, <<"The target does not exist.">>)}
LateReplies ==
    {Reply(StatusOK, <<>>),
     Reply(StatusNotOK, <<"The transmission was broken.">>),
     Reply(StatusNotOK, <<"Expected only one directory or file in the TAR payload.">>),
     Reply(StatusNotOK, <<"Issue running After script.">>)}

\* What the server writes during one session, in order: nothing, one
\* refusal, the acknowledgement alone, or the acknowledgement and the
\* terminal status.
Conversations ==
    {<<>>} \cup {<<e>> : e \in EarlyReplies}
           \cup {<<Reply(StatusOK, <<>>)>>}
           \cup {<<Reply(StatusOK, <<>>), l>> : l \in LateReplies}

\* The k-th thing the client reads
Received(server, k) == IF k <= Len(server) THEN server[k] ELSE Closed

\* arc.ReadStatus(conn): nil for OK, else an error that holds the status
\* and its message (or the read error).
ReadStatus(reply) == IF reply.code = StatusOK THEN NoError ELSE reply

\* A Command whose status is not tested: every answer counts as OK.
Command_AnyAnswerProceeds(reply) == NoError

\* arc.Command(conn, CommandDEPLOY, target): the command is written and
\* one status is read.
Command(reply) == ReadStatus(reply)

\* main: os.Exit(1) (2 for a usage error) when the command returned an
\* error, else the process ends with 0.
ExitCode(err) == IF err = NoError THEN 0 ELSE 1

HandleClientConnCall(server, written, unreadable) ==
    [fn |-> "HandleClientConn", server |-> server, written |-> written,
     unreadable |-> unreadable, pc |-> "Command", chunks |-> 0,
     terminated |-> FALSE, ret |-> NoError]

\* err := arc.Command(conn, CommandDEPLOY, target); if err != nil return
ClientCommand ==
    /\ calc.fn = "HandleClientConn"
    /\ calc.pc = "Command"
    /\ LET err == Command(Received(calc.server, 1)) IN
       IF err # NoError
       THEN calc' = [calc EXCEPT !.pc = "Done", !.ret = err]
       ELSE calc' = [calc EXCEPT !.pc = "PackTar"]
    /\ UNCHANGED <<fs, bak, now, conns, daemon, sess>>

\* PackTar(filename, sw, ignored); sw.Terminate(); if err != nil return
ClientPackTar ==
    /\ calc.fn = "HandleClientConn"
    /\ calc.pc = "PackTar"
    /\ LET c == HandleClientConn(calc.written, calc.unreadable) IN
       calc' = [calc EXCEPT !.chunks = c.entries,
                            !.terminated = c.terminated,
                            !.pc = IF c.err THEN "Done" ELSE "ReadStatus",
                            !.ret = IF c.err THEN Reply("PackTar", <<>>) ELSE @]
    /\ UNCHANGED <<fs, bak, now, conns, daemon, sess>>

\* return arc.ReadStatus(conn)
ClientReadStatus ==
    /\ calc.fn = "HandleClientConn"
    /\ calc.pc = "ReadStatus"
    /\ calc' = [calc EXCEPT !.pc = "Done",
                            !.ret = ReadStatus(Received(calc.server, 2))]
    /\ UNCHANGED <<fs, bak, now, conns, daemon, sess>>

\* cmdDeploy of the password variant: pack, dial, write the two names, the
\* size and the data, then conn.Close(). Nothing is read from the
\* connection, and AcceptPayload writes nothing to it; serverErr says that
\* AcceptPayload returned an error for this payload.
CmdDeployCall(packErr, connErr, serverErr) ==
    [fn |-> "cmdDeploy", packErr |-> packErr, connErr |-> connErr,
     serverErr |-> serverErr, pc |-> "Command", ret |-> NoError]

cmdDeploy ==
    /\ calc.fn = "cmdDeploy"
    /\ calc.pc = "Command"
    /\ calc' = [calc EXCEPT
                  !.pc = "Done",
                  !.ret = IF calc.packErr THEN Reply("pack", <<>>)
                          ELSE IF calc.connErr THEN Reply("conn", <<>>)
                          ELSE NoError]
    /\ UNCHANGED <<fs, bak, now, conns, daemon, sess>>

InitClient ==
    /\ fs = [n \in TargetNames |-> NoFile]
    /\ bak = [n \in BakNames |-> NoFile]
    /\ now = 0
    /\ conns = 0
    /\ daemon = "none"
    /\ sess = [s \in Slots |-> IdleSession]
    /\ calc \in {HandleClientConnCall(sv, n, u) :
                     sv \in Conversations, n \in 0..MaxEntries, u \in BOOLEAN}
                \cup {CmdDeployCall(p, c, e) :
                         p \in BOOLEAN, c \in BOOLEAN, e \in BOOLEAN}

NextClient == ClientCommand \/ ClientPackTar \/ ClientReadStatus \/ cmdDeploy

SpecClient == InitClient /\ [][NextClient]_vars

\* -------------------------------------------------------------------- hooks
\* RunScript and RunUnitCmds as functions of the command strings.
Chars == {" ", "x"}
HookCommands == {<<>>} \cup SeqsUpTo(Chars, MaxCmdLen)
CmdLists == {<<>>} \cup SeqsUpTo(HookCommands, MaxCmds)

\* the artifact path of the target whose hooks run, and the directory the
\* daemon was started in
HookFilepath == <<"/", "a">>
DaemonCwd == <<"/">>

\* os/exec: a process whose Dir is "" runs in the directory of the caller.
Cwd(dir) == IF dir = <<>> THEN DaemonCwd ELSE dir

RunScriptCall(command) ==
    [fn |-> "RunScript", Filepath |-> HookFilepath, command |-> command,
     spawned |-> <<>>, err |-> FALSE, done |-> FALSE]

RunUnitCmdsCall(cmds) ==
    [fn |-> "RunUnitCmds", Filepath |-> HookFilepath, cmds |-> cmds,
     next |-> 1, spawned |-> <<>>, err |-> FALSE, done |-> FALSE]

\* RunScript(command, log)
RunScriptStep ==
    /\ calc.fn = "RunScript"
    /\ ~calc.done
    /\ IF TrimSpace(calc.command) = <<>>
       THEN calc' = [calc EXCEPT !.done = TRUE]
       ELSE \E ok \in BOOLEAN :
               calc' = [calc EXCEPT
                          !.spawned = Append(@, RunScriptCmd(calc.command)),
                          !.err = ~RunScript(calc.command, ok),
                          !.done = TRUE]
    /\ UNCHANGED <<fs, bak, now, conns, daemon, sess>>

\* One turn of the loop of RunUnitCmds(unit, cmds)
RunUnitCmdsStep ==
    /\ calc.fn = "RunUnitCmds"
    /\ ~calc.done
    /\ IF calc.next > Len(calc.cmds)
       THEN calc' = [calc EXCEPT !.done = TRUE]
       ELSE LET cmd == calc.cmds[calc.next] IN
            IF Split(cmd)[1] = <<>>
            THEN calc' = [calc EXCEPT !.err = TRUE, !.done = TRUE]
            ELSE \E ok \in BOOLEAN :
                    LET ran == [calc EXCEPT !.spawned =
                                  Append(@, RunUnitCmd([Filepath |-> calc.Filepath], cmd))]
                    IN  IF RunUnitCmds(<<cmd>>, ok)
                        THEN calc' = [ran EXCEPT !.next = @ + 1]
                        ELSE calc' = [ran EXCEPT !.err = TRUE, !.done = TRUE]
    /\ UNCHANGED <<fs, bak, now, conns, daemon, sess>>

InitHook ==
    /\ fs = [n \in TargetNames |-> NoFile]
    /\ bak = [n \in BakNames |-> NoFile]
    /\ now = 0
    /\ conns = 0
    /\ daemon = "none"
    /\ sess = [s \in Slots |-> IdleSession]
    /\ calc \in {RunScriptCall(c) : c \in HookCommands}
                \cup {RunUnitCmdsCall(cs) : cs \in CmdLists}

NextHook == RunScriptStep \/ RunUnitCmdsStep

SpecHook == InitHook /\ [][NextHook]_vars

\* -------------------------------------------------------------- ReadConnSec
\* The two revisions of ReadConnSec in lib.go: the earlier one names its
\* parameter size and declares `size := bufferSize` again inside the loop,
\* so that `remaining := size - receivedBytes` is computed from the chunk
\* size; the later one names the parameter length.
Revisions == {1, 2}

\* the value of size that is given to io.CopyN in one turn of the loop
ChunkSize(rev, length, receivedBytes) ==
    LET remaining == IF rev = 1 THEN bufferSize - receivedBytes
                     ELSE length - receivedBytes
    IN  IF remaining < bufferSize THEN remaining ELSE bufferSize

\* The connection supplies conn bytes; after them it is closed, or stays
\* open with nothing more to read.
ReadConnSecCall(rev, length, conn, open) ==
    [fn |-> "ReadConnSec", rev |-> rev, length |-> length, supplied |-> conn,
     conn |-> conn, open |-> open, receivedBytes |-> 0, writer |-> 0,
     largest |-> 0, err |-> FALSE, blocked |-> FALSE, done |-> FALSE]

\* One turn of the loop of ReadConnSec. io.CopyN(writer, conn, size)
\* copies size bytes; when the connection has fewer it copies them and
\* reports the end of the connection, or waits for more.
ReadConnSecStep ==
    /\ calc.fn = "ReadConnSec"
    /\ ~calc.done /\ ~calc.blocked
    /\ IF calc.receivedBytes >= calc.length
       THEN calc' = [calc EXCEPT !.done = TRUE]
       ELSE LET size == ChunkSize(calc.rev, calc.length, calc.receivedBytes) IN
            IF calc.conn >= size
            THEN calc' = [calc EXCEPT
                            !.conn = @ - size,
                            !.writer = @ + size,
                            !.receivedBytes = @ + size,
                            !.largest = IF size > @ THEN size ELSE @]
            ELSE calc' = [calc EXCEPT
                            !.conn = 0,
                            !.writer = @ + calc.conn,
                            !.largest = IF size > @ THEN size ELSE @,
                            !.blocked = calc.open,
                            !.err = ~calc.open,
                            !.done = ~calc.open]
    /\ UNCHANGED <<fs, bak, now, conns, daemon, sess>>

InitSec ==
    /\ fs = [n \in TargetNames |-> NoFile]
    /\ bak = [n \in BakNames |-> NoFile]
    /\ now = 0
    /\ conns = 0
    /\ daemon = "none"
    /\ sess = [s \in Slots |-> IdleSession]
    /\ calc \in {ReadConnSecCall(rev, n, c, o) :
                     rev \in Revisions, n \in 0..MaxLength,
                     c \in 0..(MaxLength + 1), o \in BOOLEAN}

NextSec == ReadConnSecStep

SpecSec == InitSec /\ [][NextSec]_vars

\* the loop is scheduled until it returns or waits for the connection
SpecSecFair == SpecSec /\ WF_vars(NextSec)

\* ------------------------------------------------------------- wire strings
\* WriteConnStr and ReadConnStr as functions of the string and the width.
Nul == "NUL"
Bytes == {Nul, "a", "b"}
WireStrings == {<<>>} \cup SeqsUpTo(Bytes, MaxStrLen)

\* make([]byte, length)
Zeros(length) == [i \in 1..length |-> Nul]

\* copy(dst, src): the first min(len(dst), len(src)) bytes of src over dst
Copy(dst, src) ==
    [i \in 1..Len(dst) |-> IF i <= Len(src) THEN src[i] ELSE dst[i]]

\* TrimZeroStr(str): strings.Trim(str, "\x00"), the zero bytes at both ends
RECURSIVE TrimZeroLeft(_)
TrimZeroLeft(str) ==
    IF str # <<>> /\ Head(str) = Nul THEN TrimZeroLeft(Tail(str)) ELSE str
RECURSIVE TrimZeroRight(_)
TrimZeroRight(str) ==
    IF str # <<>> /\ str[Len(str)] = Nul
    THEN TrimZeroRight(SubSeq(str, 1, Len(str) - 1)) ELSE str
TrimZeroStr(str) == TrimZeroRight(TrimZeroLeft(str))

\* WriteConnStr(conn, str, length): the bytes written to the connection
WriteConnStr(str, length) == Copy(Zeros(length), str)

\* ReadConnStr(conn, length) when conn.Read delivered the first got bytes
\* of what the connection holds
ReadConnStr(conn, length, got) ==
    TrimZeroStr(Copy(Zeros(length), SubSeq(conn, 1, got)))

WriteConnStrCall(str) ==
    [fn |-> "WriteConnStr", str |-> str, length |-> FieldWidth]

WriteConnStrStep ==
    /\ calc.fn = "WriteConnStr"
    /\ calc' = [fn |-> "ReadConnStr", str |-> calc.str, length |-> calc.length,
                conn |-> WriteConnStr(calc.str, calc.length),
                out |-> <<>>, err |-> FALSE, done |-> FALSE]
    /\ UNCHANGED <<fs, bak, now, conns, daemon, sess>>

\* conn.Read(buf) reports an error, or delivers at least one byte and at
\* most len(buf) bytes.
ReadConnStrStep ==
    /\ calc.fn = "ReadConnStr"
    /\ ~calc.done
    /\ \/ calc' = [calc EXCEPT !.err = TRUE, !.done = TRUE]
       \/ \E got \in 1..calc.length :
             calc' = [calc EXCEPT
                        !.out = ReadConnStr(calc.conn, calc.length, got),
                        !.conn = SubSeq(@, got + 1, Len(@)),
                        !.done = TRUE]
    /\ UNCHANGED <<fs, bak, now, conns, daemon, sess>>

InitWire ==
    /\ fs = [n \in TargetNames |-> NoFile]
    /\ bak = [n \in BakNames |-> NoFile]
    /\ now = 0
    /\ conns = 0
    /\ daemon = "none"
    /\ sess = [s \in Slots |-> IdleSession]
    /\ calc \in {WriteConnStrCall(str) : str \in WireStrings}

NextWire == WriteConnStrStep \/ ReadConnStrStep

SpecWire == InitWire /\ [][NextWire]_vars

\* ---------------------------------------------------------------- CheckAuth
\* Configurations as the TOML file can give them: nothing checks that the
\* names of the units differ, or that an allowed actor is configured.
UnitValues ==
    {[Name |-> n, AllowedActors |-> a, BeforeCmds |-> <<>>, AfterCmds |-> <<>>] :
        n \in {"app", "web"}, a \in {<<>>, <<"alice">>, <<"bob">>}}
UnitLists == UNION {[1..k -> UnitValues] : k \in 0..MaxUnits}
ActorLists == {SubSeq(Actors, 1, k) : k \in 0..Len(Actors)}
Confs == {[Actors |-> a, Units |-> u] : a \in ActorLists, u \in UnitLists}

\* AcceptPayload has read the unit name and the actor name.
CheckAuthCall(c, unitName, actor) ==
    [fn |-> "CheckAuth", conf |-> c, unitName |-> unitName, actor |-> actor,
     pc |-> "CheckAuth", auth |-> "none", unit |-> ZeroUnit, err |-> FALSE]

\* if !CheckAuth(c, unitName, actor) { return errors.New(...) }
CheckAuthStep ==
    /\ calc.fn = "CheckAuth"
    /\ calc.pc = "CheckAuth"
    /\ IF CheckAuthOf(calc.conf, calc.unitName, calc.actor)
       THEN calc' = [calc EXCEPT !.pc = "ReadTar", !.auth = "true"]
       ELSE calc' = [calc EXCEPT !.pc = "Done", !.auth = "false",
                                 !.err = TRUE]
    /\ UNCHANGED <<fs, bak, now, conns, daemon, sess>>

\* ReadConnSec, Decrypt and UnpackTar: the first error is returned;
\* otherwise unit := GetUnit(c, unitName), the unit that is deployed to.
GetUnitStep ==
    /\ calc.fn = "CheckAuth"
    /\ calc.pc = "ReadTar"
    /\ \E ok \in BOOLEAN :
          IF ok
          THEN calc' = [calc EXCEPT !.pc = "Deploy",
                                    !.unit = GetUnitOf(calc.conf, calc.unitName)]
          ELSE calc' = [calc EXCEPT !.pc = "Done", !.err = TRUE]
    /\ UNCHANGED <<fs, bak, now, conns, daemon, sess>>

InitAuth ==
    /\ fs = [n \in TargetNames |-> NoFile]
    /\ bak = [n \in BakNames |-> NoFile]
    /\ now = 0
    /\ conns = 0
    /\ daemon = "none"
    /\ sess = [s \in Slots |-> IdleSession]
    /\ calc \in {CheckAuthCall(c, u, a) :
                    c \in Confs, u \in {"app", "web"}, a \in ActorInputs}

NextAuth == CheckAuthStep \/ GetUnitStep

SpecAuth == InitAuth /\ [][NextAuth]_vars

\* ------------------------------------------------------------------ PackTar
\* The item that is packed: the directory /r. Below it, entries named g,
\* gh and h, each absent, a regular file, an empty directory or a directory
\* holding one regular file h.
RootName == <<"r">>
ChildNames == << <<"g">>, <<"g", "h">>, <<"h">> >>
Leaf == <<"h">>
Absent == "absent"
DirWithFile == "DirWithFile"
Kinds == {Absent, TypeReg, TypeDir, DirWithFile}
Trees == [1..Len(ChildNames) -> Kinds]

\* IgnoreFiles, the package variable IsProjectPath reads: empty, or the
\* one entry "/g" (a separator and a name, as in the default "/.git").
IgnoreLists == {<<>>, << <<"/", "g">> >>}

\* The path as the string filepath.Walk passes to the callback.
RECURSIVE PathString(_)
PathString(parts) ==
    IF parts = <<>> THEN <<>>
    ELSE <<"/">> \o Head(parts) \o PathString(Tail(parts))

\* strings.Contains(p, v)
Contains(p, v) ==
    \E i \in 1..(Len(p) - Len(v) + 1) : SubSeq(p, i, i + Len(v) - 1) = v

\* IsProjectPath(p): some entry of IgnoreFiles is a substring of p.
IsProjectPath(p, IgnoreFiles) ==
    \E i \in 1..Len(IgnoreFiles) : Contains(p, IgnoreFiles[i])

\* filepath.Walk(fp, ...): the root, then its entries in lexical order,
\* each directory followed by what it holds. The result is the sequence of
\* [path, Typeflag] visited, the paths relative to filepath.Dir(fp).
RECURSIVE WalkFrom(_, _)
WalkFrom(tree, i) ==
    IF i > Len(ChildNames) THEN <<>>
    ELSE LET q == <<RootName, ChildNames[i]>>
             here == CASE tree[i] = Absent -> <<>>
                       [] tree[i] = TypeReg -> <<[path |-> q, Typeflag |-> TypeReg]>>
                       [] tree[i] = TypeDir -> <<[path |-> q, Typeflag |-> TypeDir]>>
                       [] OTHER -> <<[path |-> q, Typeflag |-> TypeDir],
                                     [path |-> Append(q, Leaf), Typeflag |-> TypeReg]>>
         IN  here \o WalkFrom(tree, i + 1)
Walk(tree) == <<[path |-> <<RootName>>, Typeflag |-> TypeDir]>> \o WalkFrom(tree, 1)

\* PackTar(filename): for every visited path that IsProjectPath does not
\* report, a header whose name is the path relative to filepath.Dir(fp)
\* (and the content, for a regular file). The result is buf.Bytes() taken
\* before the deferred writer.Close() runs: the padding of the last file
\* and the end-of-archive blocks are not in it. aligned says that the size
\* of the last regular file is a multiple of 512, so that it has no padding.
PackTar(tree, IgnoreFiles, aligned) ==
    LET kept == SelectSeq(Walk(tree),
                    LAMBDA e : ~IsProjectPath(PathString(e.path), IgnoreFiles))
    IN  [archive |-> [i \in 1..Len(kept) |->
                        [Name |-> [abs |-> FALSE, parts |-> kept[i].path],
                         Typeflag |-> kept[i].Typeflag]],
         cut |-> kept # <<>> /\ kept[Len(kept)].Typeflag = TypeReg /\ ~aligned]

\* The archive PackTar produced is given to UnpackTar.
PackTarStep ==
    /\ calc.fn = "PackTar"
    /\ LET packed == PackTar(calc.tree, calc.ignore, calc.aligned)
       IN  calc' = UnpackTarCall(packed.archive, packed.cut)
                     @@ [tree |-> calc.tree, ignore |-> calc.ignore]
    /\ UNCHANGED <<fs, bak, now, conns, daemon, sess>>

\* UnpackTar applied to every archive of the bounded set, and to the
\* archive PackTar makes of every tree of the bounded set.
InitTar ==
    /\ fs = [t \in TargetNames |-> NoFile]
    /\ bak = [n \in BakNames |-> NoFile]
    /\ now = 0
    /\ conns = 0
    /\ daemon = "none"
    /\ sess = [s \in Slots |-> IdleSession]
    /\ calc \in {UnpackTarCall(a, FALSE) : a \in Archives}
                \cup {UnpackTarCall(a, TRUE) :
                         a \in {x \in Archives : x # <<>>
                                   /\ x[Len(x)].Typeflag = TypeReg}}
                \cup {[fn |-> "PackTar", tree |-> tr, ignore |-> ig,
                        aligned |-> al] :
                         tr \in Trees, ig \in IgnoreLists, al \in BOOLEAN}

NextTar == PackTarStep \/ UnpackTarStep

SpecTar == InitTar /\ [][NextTar]_vars

\* ------------------------------------------------------------- the claims
Has(r, op) == \E i \in 1..Len(r.ops) : r.ops[i] = op
Pos(r, op) == CHOOSE i \in 1..Len(r.ops) : r.ops[i] = op
Terminal(r) == SelectSeq(r.sent, LAMBDA x : x.step # "Ack")
Done(s) == sess[s].pc = "Done"
HS(s) == sess[s].handler = "HandleServerConn"
Started(s) == sess[s].pc # "Idle"
\* the filesystem is as it was when the session started
Untouched(s) == fs = sess[s].pre.fs /\ bak = sess[s].pre.bak
\* the session received and unpacked an archive of n top-level entries
Unpacked(s, n) == Has(sess[s], "Unpack") /\ sess[s].entries = n
HooksSucceeded(s) ==
    /\ ~Has(sess[s], "BeforeFail")
    /\ ~Has(sess[s], "AfterFail")

\* C1: in a session (of either handler) whose staging directory holds 0 or
\* 2+ top-level entries, the target path and the backup directory are never
\* changed: the artifact is not renamed into the backup directory, removed
\* or replaced.
C1_InvalidPayloadNeverMutates ==
    \A s \in Slots :
        (Started(s) /\ Has(sess[s], "Unpack") /\ sess[s].entries # 1)
            => Untouched(s)

\* C2: when the After hook fails in a HandleServerConn session whose target
\* had an artifact, and no operating-system call of the session fails, then
\* at the end of the session the target path holds the pre-deployment
\* artifact, the After hook was run a second time after the rename that
\* restored it, and the one terminal status is NOT_OK with the message of
\* the After-script failure.
C2_AfterFailureRestores ==
    \A s \in Slots :
        LET r == sess[s] IN
        (HS(s) /\ Done(s) /\ Has(r, "AfterFail") /\ ~r.fault
              /\ r.pre.fs[r.target] # NoFile)
            => /\ fs[r.target] = r.pre.fs[r.target]
               /\ Has(r, "RestoreRename")
               /\ \E i \in 1..Len(r.ops) :
                     /\ r.ops[i] \in {"ReAfterOk", "ReAfterFail"}
                     /\ i > Pos(r, "RestoreRename")
               /\ Len(Terminal(r)) = 1
               /\ Terminal(r)[1].code = StatusNotOK
               /\ Terminal(r)[1].msg[1] = "Issue running After script."

C2_Witness ==
    \E s \in Slots :
        LET r == sess[s] IN
        /\ HS(s) /\ Done(s) /\ Has(r, "AfterFail") /\ ~r.fault
        /\ r.pre.fs[r.target] = OldArtifact
        /\ fs[r.target] = OldArtifact
        /\ Has(r, "ReAfterOk")

\* C3: a rollback never deletes or overwrites the failed artifact: once the
\* rollback has taken it from the target path, an entry <target>.<ts>.failed.bak
\* of the backup directory holds it, also after the rollback has completed.
C3_FailedArtifactKept ==
    \A s \in Slots :
        LET r == sess[s] IN
        (Has(r, "ActivateRename") /\ (Has(r, "RestoreRemove") \/ Has(r, "MoveAside")))
            => \E n \in BakNames :
                  n.failed /\ n.t = r.target /\ bak[n] = Payload(r.id)

\* C4: when the activation or the After hook fails in a HandleServerConn
\* session for which BackupTarget made no backup, nothing is removed or
\* renamed at the target path and the terminal NOT_OK message does not
\* report a failed restore.
C4_NoBackupNoRollback ==
    \A s \in Slots :
        LET r == sess[s] IN
        (HS(s) /\ r.backup = EmptyPath
              /\ (Has(r, "MoveInvalid") \/ Has(r, "MoveFail") \/ Has(r, "AfterFail")))
            => /\ ~Has(r, "RestoreRemove")
               /\ ~Has(r, "RestoreRename")
               /\ Done(s) =>
                    /\ Len(Terminal(r)) = 1
                    /\ Terminal(r)[1].code = StatusNotOK
                    /\ Len(Terminal(r)[1].msg) = 1

\* C5: a DEPLOY to a target whose artifact path does not exist, with a
\* one-entry payload, succeeding hooks and no failing operating-system call,
\* creates no entry in the backup directory (the backup path is empty),
\* ends with the terminal status OK and leaves the payload at the target path.
C5_FirstDeployment ==
    \A s \in Slots :
        LET r == sess[s] IN
        (HS(s) /\ Done(s) /\ Unpacked(s, 1) /\ HooksSucceeded(s) /\ ~r.fault
              /\ r.pre.fs[r.target] = NoFile)
            => /\ bak = r.pre.bak
               /\ r.backup = EmptyPath
               /\ ~Has(r, "BackupRename")
               /\ Len(Terminal(r)) = 1
               /\ Terminal(r)[1].code = StatusOK
               /\ fs[r.target] = Payload(r.id)

C5_Witness ==
    \E s \in Slots :
        LET r == sess[s] IN
        /\ HS(s) /\ Done(s) /\ Unpacked(s, 1) /\ HooksSucceeded(s) /\ ~r.fault
        /\ r.pre.fs[r.target] = NoFile
        /\ Has(r, "AfterOk")
        /\ fs[r.target] = Payload(r.id)

\* C6: a DEPLOY session by an authorized principal with a one-entry payload,
\* succeeding hooks and no failing operating-system call ends with the
\* terminal status OK, and at that moment the target path holds the entry
\* the client sent.
C6_DeploySucceeds ==
    \A s \in Slots :
        LET r == sess[s] IN
        (HS(s) /\ Done(s) /\ Unpacked(s, 1) /\ HooksSucceeded(s) /\ ~r.fault)
            => /\ r.name \in Authorized(r.target) \/ Wildcard \in Authorized(r.target)
               /\ Len(Terminal(r)) = 1
               /\ Terminal(r)[1].code = StatusOK
               /\ r.sent[Len(r.sent)].step = "Commit"
               /\ fs[r.target] = Payload(r.id)

C6_Witness ==
    \E s \in Slots :
        LET r == sess[s] IN
        /\ HS(s) /\ Done(s) /\ Unpacked(s, 1) /\ HooksSucceeded(s) /\ ~r.fault
        /\ r.name = "alice" /\ r.target = "app"
        /\ r.pre.fs["app"] = OldArtifact
        /\ Has(r, "DeleteBackup")
        /\ fs["app"] = Payload(r.id)

NoStatusPaths == {"handshake", "readcommand", "ack", "closed"}

Identified(s) == HS(s) /\ Done(s) /\ Has(sess[s], "GetSignatureName")

\* C8 as stated: a DEPLOY session whose credential does not resolve to a
\* principal ends with BLOCKED for every requested name, also when the
\* lookup itself reports an error.
C8_UnresolvedAlwaysBlocked ==
    \A s \in Slots :
        LET r == sess[s] IN
        (Identified(s) /\ (r.lookupErr \/ GetSignatureName(r.sig) = ""))
            => /\ Len(Terminal(r)) = 1
               /\ Terminal(r)[1].code = StatusBlocked

\* C8 as amended: a DEPLOY session whose credential the authority does not
\* list ends with BLOCKED for every requested name, existing or not, when
\* the lookup succeeds; when the lookup itself reports an error the session
\* ends with NOT_OK "Failed to look up signature.".
C8_UnlistedBlocked ==
    \A s \in Slots :
        LET r == sess[s] IN
        Identified(s) =>
            /\ (~r.lookupErr /\ r.sig \notin DOMAIN AuthorizedKeys)
                  => /\ Len(Terminal(r)) = 1
                     /\ Terminal(r)[1].code = StatusBlocked
            /\ r.lookupErr
                  => /\ Len(Terminal(r)) = 1
                     /\ Terminal(r)[1].code = StatusNotOK
                     /\ Terminal(r)[1].msg = <<"Failed to look up signature.">>

C8_Witness ==
    \E s \in Slots :
        LET r == sess[s] IN
        /\ Identified(s) /\ ~r.lookupErr
        /\ r.sig = "sigEve" /\ r.input = "ghost"
        /\ Terminal(r)[1].code = StatusBlocked

\* C9 as stated: a DEPLOY request naming a target absent from configuration
\* ends with NOT_EXIST, and no BLOCKED outcome is decided before the
\* existence check has run.
C9_AbsentTargetNotExist ==
    \A s \in Slots :
        LET r == sess[s] IN
        Identified(s) =>
            /\ r.input \notin TargetNames
                  => /\ Len(Terminal(r)) = 1
                     /\ Terminal(r)[1].code = StatusNotExist
            /\ (Len(Terminal(r)) = 1 /\ Terminal(r)[1].code = StatusBlocked)
                  => Has(r, "GetTargetByName")

\* C9 as amended: a DEPLOY request by a resolved principal naming a target
\* absent from configuration ends with NOT_EXIST, and the existence check
\* runs before the permission check of the target (Allows); a credential
\* that resolves to no principal is BLOCKED before the existence check.
C9_ExistenceBeforePermission ==
    \A s \in Slots :
        LET r == sess[s] IN
        /\ (HS(s) /\ Has(r, "Allows"))
              => /\ Has(r, "GetTargetByName")
                 /\ Pos(r, "GetTargetByName") < Pos(r, "Allows")
                 /\ r.input \in TargetNames
        /\ Identified(s) =>
              /\ (~r.lookupErr /\ r.sig \in DOMAIN AuthorizedKeys
                     /\ r.input \notin TargetNames)
                    => /\ Len(Terminal(r)) = 1
                       /\ Terminal(r)[1].code = StatusNotExist
                       /\ ~Has(r, "Allows")
              /\ (~r.lookupErr /\ r.sig \notin DOMAIN AuthorizedKeys)
                    => /\ Terminal(r)[1].code = StatusBlocked
                       /\ ~Has(r, "GetTargetByName")

C9_Witness ==
    \E s \in Slots :
        LET r == sess[s] IN
        /\ Identified(s) /\ ~r.lookupErr
        /\ r.sig = "sigBob" /\ r.input = "ghost"
        /\ Terminal(r)[1].code = StatusNotExist

\* the session changed something at a target path or in the backup directory
TouchedFs(r) ==
    \E op \in {"BackupRename", "ActivateRename", "RestoreRemove",
               "RestoreRename", "DeleteBackup"} : Has(r, op)

\* C10: a HandleServerConn session writes the acknowledgement, reads payload
\* bytes or touches the target path only if the resolved principal is in the
\* existing target's Authorized list or that list holds the wildcard; for
\* every other resolved principal the session ends with BLOCKED, with no
\* payload byte read and the target paths and the backup directory unchanged.
C10_OnlyAuthorizedProceed ==
    \A s \in Slots :
        LET r == sess[s] IN
        HS(s) =>
            /\ (Has(r, "Ack") \/ Has(r, "TempFile") \/ r.bytes \/ TouchedFs(r)
                   \/ ~Untouched(s))
                  => /\ r.sig \in DOMAIN AuthorizedKeys
                     /\ r.input \in TargetNames
                     /\ \/ AuthorizedKeys[r.sig] \in Authorized(r.input)
                        \/ Wildcard \in Authorized(r.input)
            /\ (Identified(s) /\ ~r.lookupErr
                   /\ r.sig \in DOMAIN AuthorizedKeys
                   /\ r.input \in TargetNames
                   /\ AuthorizedKeys[r.sig] \notin Authorized(r.input)
                   /\ Wildcard \notin Authorized(r.input))
                  => /\ Len(r.sent) = 1
                     /\ r.sent[1].code = StatusBlocked
                     /\ ~r.bytes
                     /\ Untouched(s)

C10_Witness ==
    \E s \in Slots :
        LET r == sess[s] IN
        /\ Identified(s) /\ ~r.lookupErr
        /\ r.sig = "sigBob" /\ r.input = "app"
        /\ r.sent = <<Status(StatusBlocked,
                <<"You do not have permission to deploy this target.">>, "Identify")>>
        /\ Untouched(s)
        /\ conns = 2

\* --------------------------------------------- concurrency of the sessions
\* The session has executed its Backup step and has not yet ended its
\* Commit or Rollback: it is at the activation, at a hook that follows it,
\* inside restore() / restoreBackup(), or at the deletion of its backup.
InFlightSteps ==
    {"MoveTarget", "After", "RestoreRemove", "RestoreRename", "RestoreAfter",
     "Commit",
     "APMove", "BeforeCmds", "AfterCmds", "MoveAside", "RestoreBackup",
     "DeleteFailed", "DeleteBackup"}
InFlight(s) == sess[s].pc \in InFlightSteps

\* C11: for each target name at most one session at a time is between the
\* start of its Backup step and the end of its Commit or Rollback.
C11_OneInFlightPerTarget ==
    \A s1, s2 \in DOMAIN sess :
        (s1 # s2 /\ InFlight(s1) /\ InFlight(s2))
            => sess[s1].target # sess[s2].target

\* C12: two deployments of the same target that are in flight at the same
\* time never hold the same backup path, also when their Backup steps ran
\* within the same clock second; so the entry of the backup directory a
\* session's Backup step wrote is not written by the other session's.
C12_DistinctBackupPaths ==
    \A s1, s2 \in DOMAIN sess :
        (s1 # s2 /\ InFlight(s1) /\ InFlight(s2)
              /\ sess[s1].backup # EmptyPath /\ sess[s2].backup # EmptyPath)
            => sess[s1].backup # sess[s2].backup

\* C13: a panic inside one session's handler does not stop the accept loop
\* and does not end any other in-flight session: after it the daemon still
\* runs its handler for new connections and no other session was cut off.
C13_PanicIsContained ==
    \A s \in DOMAIN sess :
        sess[s].pc = "Panicked"
            => /\ daemon \in Handlers
               /\ \A t \in DOMAIN sess : sess[t].pc # "Killed"

\* --------------------------------------- errors before the activation
\* The classes of error by which a HandleServerConn session ends before it
\* reaches MoveTarget, told from what the session did.
Unsupported(r) == r.cmd \notin {"", CommandDEPLOY, CommandPING}
Refused(r) ==
    /\ Has(r, "GetSignatureName") /\ ~r.lookupErr
    /\ ~Identify(r.sig, r.lookupErr, r.input).pass
TempFileError(r) ==
    /\ Has(r, "GetSignatureName")
    /\ Identify(r.sig, r.lookupErr, r.input).pass
    /\ ~Has(r, "TempFile")
BrokenTransmission(r) ==
    Has(r, "Ack") /\ ~Has(r, "ReadStream") /\ r.result # "closed"
UnpackFailure(r) == Has(r, "ReadStream") /\ ~Has(r, "Unpack")
BeforeFailure(r) == Has(r, "BeforeFail")
BackupFailure(r) ==
    /\ Has(r, "Unpack") /\ ~Has(r, "BeforeFail")
    /\ ~Has(r, "ActivateRename") /\ ~Has(r, "MoveInvalid") /\ ~Has(r, "MoveFail")
ErrorBeforeActivation(r) ==
    \/ Unsupported(r) \/ Refused(r) \/ TempFileError(r)
    \/ BrokenTransmission(r) \/ UnpackFailure(r) \/ BeforeFailure(r)
    \/ BackupFailure(r)

\* C14: when a HandleServerConn session ends with an unsupported command,
\* blocked, not-exist, a temp-file error, a broken transmission, an unpack
\* failure, a Before-hook failure or a backup failure, it has sent one
\* terminal status, which is not OK, and the artifact at every target path
\* and the contents of the backup directory are as when the session started.
C14_EarlyErrorLeavesNoTrace ==
    \A s \in Slots :
        LET r == sess[s] IN
        (HS(s) /\ Done(s) /\ ErrorBeforeActivation(r))
            => /\ Len(Terminal(r)) = 1
               /\ Terminal(r)[1].code \in
                     {StatusNotOK, StatusUnsupported, StatusBlocked, StatusNotExist}
               /\ r.sent[Len(r.sent)].step # "Ack"
               /\ Untouched(s)

C14_Witness ==
    \E s \in Slots :
        LET r == sess[s] IN
        /\ HS(s) /\ Done(s) /\ BackupFailure(r)
        /\ Has(r, "BeforeOk")
        /\ r.pre.fs[r.target] = OldArtifact
        /\ Terminal(r)[1].msg = <<"Failed to backup the target. Please attend.">>
        /\ Untouched(s)

\* C15: in a session of either handler the Before hook runs before any
\* backup rename or activation rename; when it fails, neither the target
\* path nor the backup directory has been changed and no restore step is
\* performed.
C15_BeforeHookFirst ==
    \A s \in Slots :
        LET r == sess[s] IN
        /\ Has(r, "BeforeFail")
              => /\ ~Has(r, "BackupRename")
                 /\ ~Has(r, "ActivateRename")
                 /\ ~Has(r, "MoveAside")
                 /\ ~Has(r, "RestoreRemove")
                 /\ ~Has(r, "RestoreRename")
                 /\ Untouched(s)
        /\ Has(r, "BeforeOk")
              => /\ Has(r, "BackupRename")
                    => Pos(r, "BeforeOk") < Pos(r, "BackupRename")
                 /\ Has(r, "ActivateRename")
                    => Pos(r, "BeforeOk") < Pos(r, "ActivateRename")

\* ------------------------------------------------------------- rollback
\* restore() reported that one of its steps failed
RestoreReportedFailed(r) ==
    /\ Len(Terminal(r)) = 1
    /\ Len(Terminal(r)[1].msg) = 2
    /\ Terminal(r)[1].msg[2] = " Restoring from backup failed. Please attend."

\* C16: when the activation fails (the staged payload is not exactly one
\* entry, or MkdirAll, ReadDir or the rename fails) in a session of either
\* handler that made a backup, the session enters the rollback: by its end
\* the backup was renamed back, so that the target path holds the
\* pre-deployment artifact, unless a step of the rollback itself failed
\* and was reported.
C16_ActivateFailureRollsBack ==
    \A s \in Slots :
        LET r == sess[s] IN
        (Done(s) /\ r.backup # EmptyPath
              /\ (Has(r, "MoveInvalid") \/ Has(r, "MoveFail")))
            => /\ Has(r, "RestoreRename") \/ RestoreReportedFailed(r)
               /\ Has(r, "RestoreRename")
                     => fs[r.target] = r.pre.fs[r.target]

\* the session entered restore() and its RemoveAll or its Rename failed
RollbackStepFailed(r) ==
    /\ Has(r, "MoveInvalid") \/ Has(r, "MoveFail") \/ Has(r, "AfterFail")
    /\ ~Has(r, "RestoreRemove") \/ ~Has(r, "RestoreRename")

\* C17: when the RemoveAll or the Rename inside restore() fails in a
\* HandleServerConn session, no further step of the rollback is performed
\* (no rename after a failed remove, no re-run of the After hook, no
\* deletion of the backup, which stays in the backup directory), and the one
\* terminal status is NOT_OK with a message that asks for attention.
C17_FailedRollbackStops ==
    \A s \in Slots :
        LET r == sess[s] IN
        (HS(s) /\ Done(s) /\ RollbackStepFailed(r))
            => /\ ~Has(r, "RestoreRemove") => ~Has(r, "RestoreRename")
               /\ ~Has(r, "ReAfterOk") /\ ~Has(r, "ReAfterFail")
               /\ ~Has(r, "DeleteBackup")
               /\ r.backup # EmptyPath => bak[r.backup] = r.pre.fs[r.target]
               /\ Len(Terminal(r)) = 1
               /\ Terminal(r)[1].code = StatusNotOK
               /\ Terminal(r)[1].msg[Len(Terminal(r)[1].msg)]
                     = " Restoring from backup failed. Please attend."

C17_Witness ==
    \E s \in Slots :
        LET r == sess[s] IN
        /\ HS(s) /\ Done(s) /\ Has(r, "AfterFail")
        /\ Has(r, "RestoreRemove") /\ ~Has(r, "RestoreRename")
        /\ r.backup # EmptyPath
        /\ bak[r.backup] = OldArtifact
        /\ fs[r.target] = NoFile
        /\ RestoreReportedFailed(r)

\* ---------------------------------------------------------------- commit
\* the outcome of the session is success: terminal OK for HandleServerConn,
\* the nil error for AcceptPayload
OutcomeOK(r) ==
    IF r.handler = "HandleServerConn"
    THEN Len(Terminal(r)) = 1 /\ Terminal(r)[1].code = StatusOK
    ELSE r.result = "nil"

\* C18: a session of either handler whose activation and After hook have
\* succeeded ends with the outcome OK and performs no rollback step,
\* whether the deletion of its backup succeeds or fails; when the deletion
\* succeeds the backup entry is gone.
C18_CommitIsLenient ==
    \A s \in Slots :
        LET r == sess[s] IN
        (Done(s) /\ Has(r, "ActivateRename") /\ Has(r, "AfterOk"))
            => /\ OutcomeOK(r)
               /\ ~Has(r, "RestoreRemove") /\ ~Has(r, "RestoreRename")
               /\ ~Has(r, "MoveAside")
               /\ fs[r.target] = Payload(r.id)
               /\ Has(r, "DeleteBackup") => bak[r.backup] = NoFile

\* ------------------------------------------------- the transfer is cut
\* the acknowledgement was written and goio.ReadStream returned an error
StreamFailed(r) == Has(r, "Ack") /\ ~Has(r, "ReadStream")

\* C19: when the client disconnects before the end-of-stream marker, or
\* the stream read fails with another I/O error, the HandleServerConn
\* session unpacks nothing, runs no hook, makes no backup and performs no
\* activation or restore: the target paths and the backup directory are as
\* when it started. After a disconnect nothing more is written; after
\* another error the one terminal status is NOT_OK "The transmission was
\* broken.".
C19_CutTransferActivatesNothing ==
    \A s \in Slots :
        LET r == sess[s] IN
        (HS(s) /\ Done(s) /\ StreamFailed(r))
            => /\ \A op \in {"Unpack", "BeforeOk", "BeforeFail", "BackupRename",
                              "ActivateRename", "MoveInvalid", "MoveFail",
                              "AfterOk", "AfterFail", "RestoreRemove",
                              "RestoreRename", "ReAfterOk", "ReAfterFail",
                              "DeleteBackup"} : ~Has(r, op)
               /\ Untouched(s)
               /\ r.result = "closed" => Len(Terminal(r)) = 0
               /\ r.result # "closed"
                     => Terminal(r) = <<Status(StatusNotOK,
                            <<"The transmission was broken.">>, "ReadStream")>>

C19_Witness ==
    \E s \in Slots :
        LET r == sess[s] IN
        /\ HS(s) /\ Done(s) /\ StreamFailed(r)
        /\ r.result = "closed" /\ r.bytes
        /\ r.target = "app" /\ fs["app"] = OldArtifact
        /\ r.sent = <<Status(StatusOK, <<>>, "Ack")>>

\* C20: the server never unpacks, activates or commits the payload of a
\* session whose client-side PackTar returned an error.
C20_PartialArchiveDiscarded ==
    \A s \in Slots :
        LET r == sess[s] IN
        (HS(s) /\ r.packErr)
            => /\ ~Has(r, "Unpack")
               /\ ~Has(r, "ActivateRename")
               /\ ~(Done(s) /\ OutcomeOK(r))

\* ------------------------------------------------- PING and other commands
\* C21: a HandleServerConn session whose command is PING writes the single
\* status OK and nothing else, and a session whose command is neither
\* DEPLOY nor PING writes the single status UNSUPPORTED; in both the server
\* resolves no identity, reads no payload byte, creates no temporary file
\* or staging directory, and the target paths and the backup directory are
\* unchanged, also while the session is still running.
C21_PingShortCircuits ==
    \A s \in Slots :
        LET r == sess[s] IN
        (HS(s) /\ r.cmd \notin {"", CommandDEPLOY})
            => /\ r.ops = <<>>
               /\ ~r.bytes /\ ~r.tmpfile /\ ~r.tmpdir
               /\ Untouched(s)
               /\ Done(s)
               /\ r.cmd = CommandPING
                     => r.sent = <<Status(StatusOK, <<>>, "ReadCommand")>>
               /\ r.cmd # CommandPING
                     => r.sent = <<Status(StatusUnsupported,
                            <<"The command is unsupported.">>, "ReadCommand")>>

C21_Witness ==
    \E s \in Slots :
        LET r == sess[s] IN
        /\ HS(s) /\ Done(s) /\ r.cmd = CommandPING
        /\ r.sig = "sigEve"
        /\ r.sent = <<Status(StatusOK, <<>>, "ReadCommand")>>
        /\ conns = 2 /\ fs["app"] = Payload(1)

\* ------------------------------------------------------ order of the steps
\* op1 is in the history and comes before op2
Precedes(r, op1, op2) == Has(r, op1) /\ Pos(r, op1) < Pos(r, op2)
BeforeRan(r) == Has(r, "BeforeOk") \/ Has(r, "BeforeFail")

\* The steps of a HandleServerConn session, without the validation of the
\* payload, start in the order Receive, Unpack, Before hook, Backup,
\* Activate, After hook, Commit, each after the earlier ones succeeded.
StepsInOrder(r) ==
    /\ Has(r, "Unpack") => Precedes(r, "ReadStream", "Unpack")
    /\ Has(r, "BeforeOk") => Precedes(r, "Unpack", "BeforeOk")
    /\ Has(r, "BeforeFail") => Precedes(r, "Unpack", "BeforeFail")
    /\ Has(r, "BackupRename")
          => /\ Precedes(r, "Unpack", "BackupRename")
             /\ ~Has(r, "BeforeFail")
             /\ TrimSpace(Before(r.target)) # <<>> => Precedes(r, "BeforeOk", "BackupRename")
    /\ Has(r, "ActivateRename")
          => /\ Precedes(r, "Unpack", "ActivateRename")
             /\ ~Has(r, "BeforeFail")
             /\ Has(r, "BackupRename") => Precedes(r, "BackupRename", "ActivateRename")
    /\ Has(r, "AfterOk") => Precedes(r, "ActivateRename", "AfterOk")
    /\ Has(r, "AfterFail") => Precedes(r, "ActivateRename", "AfterFail")
    /\ Has(r, "DeleteBackup") => Precedes(r, "AfterOk", "DeleteBackup")

\* C22: within one HandleServerConn session the steps occur in the order
\* Receive, Unpack and validate (exactly one top-level entry), Before hook,
\* Backup, Activate, After hook, Commit, and the Before hook, the Backup and
\* the Activate steps start only for a payload that was validated.
C22_StrictStepOrder ==
    \A s \in Slots :
        LET r == sess[s] IN
        HS(s) =>
            /\ StepsInOrder(r)
            /\ (BeforeRan(r) \/ Has(r, "BackupRename") \/ r.pc = "MoveTarget")
                  => r.entries = 1

\* ---------------------------------------------------------- the archives
\* C23: for every archive, also with entries whose names hold ".."
\* components or are absolute, every file and directory UnpackTar creates
\* or overwrites lies under the staging directory it created.
C23_UnpackStaysInStaging ==
    calc.fn = "UnpackTar"
        => \A q \in calc.made : Under(StagingDir, q)

\* The entry, or a directory above it, has the name an ignore pattern
\* gives after its separator.
MatchesIgnore(path, IgnoreFiles) ==
    \E i \in 1..Len(IgnoreFiles), k \in 1..Len(path) :
        <<"/">> \o path[k] = IgnoreFiles[i]

\* the paths of the source tree with the given type
SourcePaths(tree, type) ==
    {Walk(tree)[i].path : i \in {j \in 1..Len(Walk(tree)) :
                                   Walk(tree)[j].Typeflag = type}}

\* C24: for every source tree and ignore list, unpacking the archive made
\* by PackTar succeeds and yields the directories and regular files of the
\* source under the same relative paths, except exactly the entries that
\* match an ignore pattern; no other entry is dropped.
C24_PackUnpackRoundTrip ==
    (calc.fn = "UnpackTar" /\ calc.done /\ "tree" \in DOMAIN calc)
        => /\ ~calc.err
           /\ calc.files =
                 {StagingDir \o q : q \in
                     {x \in SourcePaths(calc.tree, TypeReg) :
                          ~MatchesIgnore(x, calc.ignore)}}
           /\ calc.made \ calc.files =
                 {StagingDir \o q : q \in
                     {x \in SourcePaths(calc.tree, TypeDir) :
                          ~MatchesIgnore(x, calc.ignore)}}

\* C25: once UnpackTar has created a staging directory for a session, the
\* directory no longer exists when the session handler has returned, on
\* every exit path, the one where UnpackTar itself fails after creating
\* the directory included.
C25_StagingDirRemoved ==
    \A s \in DOMAIN sess : sess[s].pc = "Done" => ~sess[s].tmpdir

\* C26: the temporary file into which a session streams the received
\* archive is destroyed when the session ends: once HandleServerConn has
\* returned, on any path, no scratch file of that session remains.
C26_TempFileDestroyed ==
    \A s \in DOMAIN sess :
        (sess[s].handler = "HandleServerConn" /\ sess[s].pc = "Done")
            => ~sess[s].tmpfile

\* a command string that is empty or holds only spaces
Blank(str) == \A i \in 1..Len(str) : str[i] = " "

\* C27: a hook whose command string is empty or only whitespace is a
\* no-op that reports success: RunScript spawns nothing and returns nil
\* for it, and RunUnitCmds never ends with an error at such an entry.
C27_EmptyHookIsNoOp ==
    /\ (calc.fn = "RunScript" /\ calc.done /\ Blank(calc.command))
          => (~calc.err /\ calc.spawned = <<>>)
    /\ (calc.fn = "RunUnitCmds" /\ calc.done /\ calc.err)
          => ~Blank(calc.cmds[calc.next])

\* C28: every hook process is started with its working directory set to
\* the artifact path of the target, never with the directory of the daemon.
C28_HooksRunInTargetDir ==
    calc.fn \in {"RunScript", "RunUnitCmds"}
        => \A i \in 1..Len(calc.spawned) :
               Cwd(calc.spawned[i].Dir) = calc.Filepath

\* the payload was received and was not sealed with the password of the
\* actor the header names
Unauthenticated(r) ==
    r.handler = "AcceptPayload" /\ r.bytes /\ r.pass # GetPass(r.name)

\* C29: in the password variant, a received payload of any length that
\* does not authenticate under the named actor's password makes
\* AcceptPayload end with an error value, not a panic, before any unpack,
\* service stop, backup rename or activation.
C29_UnauthenticatedPayloadRejected ==
    \A s \in DOMAIN sess :
        Unauthenticated(sess[s])
            => /\ sess[s].pc = "Done"
               /\ sess[s].result # ""
               /\ sess[s].ops = <<>>

\* ReadConnStr has returned a string for the field WriteConnStr wrote
FieldRead == calc.fn = "ReadConnStr" /\ calc.done /\ ~calc.err

\* C30: for every string no longer than the field width, ReadConnStr
\* applied to the bytes written by WriteConnStr returns exactly that
\* string; for a longer string no other (truncated) name is ever returned.
C30_WireStringRoundTrip ==
    FieldRead => calc.out = calc.str

\* ------------------------------------------------------------- the client
\* the terminal status of the conversation: the last status the server
\* wrote, the acknowledgement of the command not counted
HasTerminal(server) ==
    \/ Len(server) = 2
    \/ Len(server) = 1 /\ server[1].code # StatusOK
TerminalReply(server) == server[Len(server)]

\* C31: the client handler of the send command returns success (exit code
\* zero) only when the terminal status of the server is OK, and for every
\* terminal status that is not OK it returns an error that carries the
\* status and message of the server (exit code not zero); the deploy
\* command of the password variant exits zero only when the server
\* accepted the payload.
C31_ExitCodeFollowsStatus ==
    /\ (calc.fn = "HandleClientConn" /\ calc.pc = "Done")
          => /\ ExitCode(calc.ret) = 0
                   => /\ HasTerminal(calc.server)
                      /\ TerminalReply(calc.server).code = StatusOK
             /\ (HasTerminal(calc.server)
                   /\ TerminalReply(calc.server).code # StatusOK)
                   => /\ ExitCode(calc.ret) # 0
                      /\ calc.ret = TerminalReply(calc.server)
    /\ (calc.fn = "cmdDeploy" /\ calc.pc = "Done")
          => (ExitCode(calc.ret) = 0 => ~calc.serverErr)

\* C32: in AcceptPayload, when starting the service-manager targets of
\* the unit fails, TriggerUnit reports the failure and the deployment is
\* rolled back through restoreBackup: the After commands do not run and
\* the call ends with an error.
C32_StartFailureRollsBack ==
    \A s \in DOMAIN sess :
        (sess[s].handler = "AcceptPayload" /\ Has(sess[s], "StartFail"))
            => /\ ~Has(sess[s], "AfterOk")
               /\ ~Has(sess[s], "AfterFail")
               /\ sess[s].pc = "Done" => sess[s].result # "nil"

\* ------------------------------------------------------------ ReadConnSec
\* C33: for every requested length and a connection that supplies at
\* least that many bytes, ReadConnSec, in both revisions, never fails or
\* waits, asks for at most bufferSize bytes at a time, and when it returns
\* it has consumed and returns exactly the requested number of bytes.
C33_ReadsExactlyLength ==
    (calc.fn = "ReadConnSec" /\ calc.supplied >= calc.length)
        => /\ ~calc.err /\ ~calc.blocked
           /\ calc.largest <= bufferSize
           /\ calc.done => /\ calc.writer = calc.length
                           /\ calc.supplied - calc.conn = calc.length

\* C33, termination: ReadConnSec returns.
C33_Terminates ==
    (calc.fn = "ReadConnSec" /\ calc.supplied >= calc.length) ~> calc.done

\* ---------------------------------------------- the client and the command
\* the command exchange did not return OK
CommandRefused(server) == server = <<>> \/ server[1].code # StatusOK

\* C34: the client writes no archive chunk unless the command exchange for
\* DEPLOY returned OK: when the server answers the command with BLOCKED,
\* NOT_EXIST, UNSUPPORTED or NOT_OK (or not at all), HandleClientConn
\* packs and streams nothing, and returns that error.
C34_NoChunkBeforeOK ==
    (calc.fn = "HandleClientConn" /\ CommandRefused(calc.server))
        => /\ calc.chunks = 0
           /\ ~calc.terminated
           /\ calc.pc \in {"Command", "Done"}
           /\ calc.pc = "Done" => calc.ret = Received(calc.server, 1)

\* A refused DEPLOY command came back to the caller as the error.
C34_Witness ==
    /\ calc.fn = "HandleClientConn"
    /\ calc.pc = "Done"
    /\ calc.written > 0
    /\ calc.server # <<>>
    /\ calc.server[1].code = StatusBlocked
    /\ calc.ret = calc.server[1]

\* ------------------------------------------------------- a session that hangs
Ended(s) == sess[s].pc \in {"Done", "Panicked", "Killed"}

\* the handler of s is inside a call that may never return: cmd.Wait() of a
\* hook process, or the read of the transfer
Blocked(s) ==
    sess[s].pc \in {"ReadStream", "Before", "After", "RestoreAfter",
                    "ReadConnSec", "BeforeCmds", "AfterCmds"}

\* C35: a session blocked for ever in a hook process or in a stalled
\* transfer blocks only itself: while it stays there, the accept loop can
\* take the next connection, and every other session that has not come to
\* its end, for the same or another target, has a step it can take.
C35_HangBlocksOnlyItself ==
    \A s \in Goroutines :
        (Blocked(s) /\ daemon # "crashed")
            => /\ conns < MaxConns
                    => ENABLED AcceptWith(conns + 1, IdleSession.pre)
               /\ \A o \in Goroutines \ {s} :
                    (sess[o].pc # "Idle" /\ ~Ended(o))
                        => ENABLED GoroutineStep(o)

\* While the first session stays in its Before hook, the second one, for
\* another target, has reached its terminal status OK.
C35_Witness ==
    /\ sess[1].pc = "Before"
    /\ sess[1].target = "app"
    /\ sess[2].pc = "Done"
    /\ sess[2].target = "web"
    /\ sess[2].sent # <<>>
    /\ sess[2].sent[Len(sess[2].sent)].code = StatusOK
    /\ Has(sess[2], "ActivateRename")

\* ------------------------------------------- two deployments of one target
\* every accepted session has ended and all of them were DEPLOY sessions of
\* HandleServerConn that got as far as the transfer for target t
AllDeployed(t) ==
    /\ conns = MaxConns
    /\ \A s \in DOMAIN sess :
          /\ sess[s].pc = "Done"
          /\ sess[s].handler = "HandleServerConn"
          /\ sess[s].target = t
          /\ Has(sess[s], "ReadStream")

\* the artifact the path held at the start is in the backup directory
OriginalInBackup(t) == \E n \in BakNames : n.t = t /\ bak[n] = OldArtifact

\* C36: for any interleaving of DEPLOY sessions on one target whose path
\* held an artifact at the start, once all sessions have ended the path
\* holds an artifact (the original or a received payload) or the original
\* is in the backup directory.
C36_ArtifactNeverLost ==
    \A t \in TargetNames :
        AllDeployed(t) => (fs[t] # NoFile \/ OriginalInBackup(t))

\* ------------------------------------------------- the report of a restore
\* the terminal message of the session ends with the report of a restore
\* that succeeded
RestoreReportedOk(r) ==
    /\ Len(Terminal(r)) = 1
    /\ Len(Terminal(r)[1].msg) = 2
    /\ Terminal(r)[1].msg[2] = " Restore executed successfully."

\* C37, for sessions that run one after another: HandleServerConn appends
\* " Restore executed successfully." to the terminal message if and only
\* if the three steps of restore() all succeeded (the removal of the failed artifact, the rename of the backup
\* back to the target path, the re-run of the After hook); whenever that
\* message is sent the target path holds the pre-deployment artifact and
\* the backup entry of the session is no longer in the backup directory.
C37_RestoreReportIsTruthful ==
    \A s \in Slots :
        LET r == sess[s] IN
        (HS(s) /\ Done(s))
            => /\ RestoreReportedOk(r)
                     <=> (Has(r, "RestoreRemove") /\ Has(r, "RestoreRename")
                             /\ Has(r, "ReAfterOk"))
               /\ RestoreReportedOk(r)
                     => /\ r.backup # EmptyPath
                        /\ r.pre.fs[r.target] # NoFile
                        /\ fs[r.target] = r.pre.fs[r.target]
                        /\ bak[r.backup] = NoFile

\* Session s sends its terminal status in this step, and the message ends
\* with the report of a restore that succeeded.
SendsRestoreOk(s) ==
    /\ sess[s].pc # "Done"
    /\ sess'[s].pc = "Done"
    /\ sess'[s].handler = "HandleServerConn"
    /\ RestoreReportedOk(sess'[s])

\* C37: in the step that sends the message " Restore executed
\* successfully." the target path holds an artifact and the backup entry of the session is no longer in the backup
\* directory.
C37_RestoredWhenReported ==
    [][\A s \in DOMAIN sess :
          SendsRestoreOk(s)
              => /\ fs'[sess'[s].target] # NoFile
                 /\ bak'[sess'[s].backup] = NoFile]_vars

\* ------------------------------------------------------------ authorization
\* the actor is the name of a configured Actor
ActorConfigured(c, name) == \E i \in 1..Len(c.Actors) : c.Actors[i].Name = name
\* at least one configured Unit has that name
UnitConfigured(c, unit) == \E i \in 1..Len(c.Units) : c.Units[i].Name = unit
\* every configured Unit of that name lists the actor
EveryUnitAllows(c, unit, name) ==
    \A i \in 1..Len(c.Units) :
        c.Units[i].Name = unit => StrInList(c.Units[i].AllowedActors, name)

\* C38 as stated: CheckAuth(conf, unit, actor) returns true if and only if
\* actor is the name of a configured Actor, at least one configured Unit is
\* named unit, and the Unit that GetUnit returns for that name lists actor
\* in AllowedActors.
C38_AuthFollowsGetUnit ==
    (calc.fn = "CheckAuth" /\ calc.auth # "none")
        => ((calc.auth = "true")
              <=> /\ ActorConfigured(calc.conf, calc.actor)
                  /\ UnitConfigured(calc.conf, calc.unitName)
                  /\ StrInList(GetUnitOf(calc.conf, calc.unitName).AllowedActors,
                               calc.actor))

\* C38, amended: CheckAuth returns true if and only if actor is the name of
\* a configured Actor, at least one configured Unit is named unit, and
\* every configured Unit of that name lists actor in AllowedActors; then
\* the Unit that GetUnit returns lists actor, and the Unit AcceptPayload
\* deploys to is a configured one, never the zero-value Unit.
C38_AuthFollowsEveryUnit ==
    (calc.fn = "CheckAuth" /\ calc.auth # "none")
        => /\ (calc.auth = "true")
                 <=> /\ ActorConfigured(calc.conf, calc.actor)
                     /\ UnitConfigured(calc.conf, calc.unitName)
                     /\ EveryUnitAllows(calc.conf, calc.unitName, calc.actor)
           /\ (calc.auth = "true")
                 => StrInList(GetUnitOf(calc.conf, calc.unitName).AllowedActors,
                              calc.actor)
           /\ (calc.pc = "Deploy")
                 => /\ calc.auth = "true"
                    /\ calc.unit # ZeroUnit
                    /\ \E i \in 1..Len(calc.conf.Units) :
                          calc.unit = calc.conf.Units[i]
                    /\ calc.unit.Name = calc.unitName
                    /\ StrInList(calc.unit.AllowedActors, calc.actor)

\* a unit name configured twice, every Unit of that name listing the actor:
\* the call is authorized and AcceptPayload deploys to the first of them
C38_Witness ==
    /\ calc.fn = "CheckAuth"
    /\ calc.pc = "Deploy"
    /\ calc.auth = "true"
    /\ Len(calc.conf.Units) = 2
    /\ calc.conf.Units[1].Name = calc.unitName
    /\ calc.conf.Units[2].Name = calc.unitName
    /\ calc.unit = calc.conf.Units[1]

====
